---- MODULE Spec2Model ----
(***************************************************************************)
(* Lobby / session registry of the online-play server                      *)
(* (src/src/onlinePlayServer.js, with the second handleMove of             *)
(* src/unnamed/part_003).                                                  *)
(*                                                                         *)
(* One action per websocket event or timer callback; every handler runs    *)
(* to completion (single-threaded dispatch).                               *)
(***************************************************************************)
EXTENDS Integers, Sequences, FiniteSets, TLC

\* ---------------------------------------------------------------- bounds
MaxPlayers == 2      \* participant records ever created
MaxConns == 2        \* websocket connections ever accepted
MaxGames == 2        \* size of the identifier space generateGameId draws from
MaxLobbies == 2      \* lobbies ever created
MaxMoves == 2        \* accepted moves per lobby

\* JS null / undefined for references and ids
None == 0
\* JS undefined for string-valued payload fields and nullable string fields
Absent == "null"

GameIds == 1..MaxGames

VARIABLES
  PLAYERS,     \* playerId -> player
  LOBBIES,     \* gameId -> lobby
  conns,       \* connection -> [state, pid]   (ws.readyState, ws.__playerId)
  fin,         \* the finalizeGame calls of the last handler that took effect
  created,     \* history: number of lobbies created so far (lobby serial)
  finalized,   \* history: lobby serial -> number of times it was finalized
  reattached,  \* history: player -> connection on which it reattached after a loss
  unanswered,  \* history: connections pinged by the last sweep, no pong handled since
  idleLong,    \* history: player -> without connection and lobby for over the hour
  evicted,     \* history: the records scheduleCleanup deleted
  call,        \* one getBestMove call of stockfishService.js and its subprocess
  probe        \* the arguments and the result of one function of stockfishService.js

vars == <<PLAYERS, LOBBIES, conns, fin, created, finalized, reattached,
          unanswered, idleLong, evicted, call, probe>>

\* ------------------------------------------------------- rules engine
\* chess.js is an external collaborator: a position is abstracted to the side
\* to move, the number of moves applied and its terminal status.
StartPosition == [turn |-> "w", n |-> 0, over |-> "none"]

\* The moves the rules engine accepts in a non-terminal position, each with
\* its coordinate form, its human form and the terminal status it produces.
MoveTable ==
  { [uci |-> "e2e4", san |-> "e4",   over |-> "none"],
    [uci |-> "d1h5", san |-> "Qh5#", over |-> "checkmate"],
    [uci |-> "g1g2", san |-> "Kg2",  over |-> "stalemate"],
    [uci |-> "b1c3", san |-> "Nc3",  over |-> "threefold"],
    [uci |-> "c1c2", san |-> "Kxc2", over |-> "insufficient_material"],
    [uci |-> "h1h2", san |-> "Kh2",  over |-> "draw"] }

UciInputs == {m.uci : m \in MoveTable} \cup {"a1a1"}
SanInputs == {"e4", "Zz"}
MoveInputs ==
  {[uci |-> u, san |-> Absent] : u \in UciInputs}
    \cup {[uci |-> Absent, san |-> s] : s \in SanInputs \cup {Absent}}

NoMove == [uci |-> Absent, san |-> Absent, over |-> "none"]

\* chess.move({from, to, promotion}): the accepted move, or NoMove (null / throw)
ChessMoveUci(chess, uci) ==
  IF chess.over # "none" \/ ~(\E m \in MoveTable : m.uci = uci)
    THEN NoMove
    ELSE CHOOSE m \in MoveTable : m.uci = uci

\* chess.move(san, {sloppy: true})
ChessMoveSan(chess, san) ==
  IF chess.over # "none" \/ ~(\E m \in MoveTable : m.san = san)
    THEN NoMove
    ELSE CHOOSE m \in MoveTable : m.san = san

ChessApply(chess, m) ==
  [turn |-> IF chess.turn = "w" THEN "b" ELSE "w", n |-> chess.n + 1, over |-> m.over]

TurnColor(chess) == IF chess.turn = "w" THEN "white" ELSE "black"

\* ------------------------------------------------------------ helpers
RemoveKey(f, k) == [x \in DOMAIN f \ {k} |-> f[x]]
PutKey(f, k, v) == [x \in DOMAIN f \cup {k} |-> IF x = k THEN v ELSE f[x]]

\* The state a handler works on: the two maps, the connections, the messages
\* sent so far and the finalizations made so far by this handler.
\* ids counts the participant ids issued so far (uuidv4 never repeats one)
Cur ==
  [P |-> PLAYERS, L |-> LOBBIES, C |-> conns, out |-> <<>>, fin |-> <<>>,
   ids |-> Cardinality(DOMAIN PLAYERS) + Cardinality(evicted)]

GetPlayer(st, c) ==
  IF c = None \/ st.C[c].pid = None \/ st.C[c].pid \notin DOMAIN st.P
    THEN None
    ELSE st.C[c].pid

SafeSend(st, c, payload) ==
  IF c = None \/ st.C[c].state # "open"
    THEN st
    ELSE [st EXCEPT !.out = Append(@, [to |-> c] @@ payload)]

SendToPlayer(st, p, payload) ==
  IF p = None THEN st ELSE SafeSend(st, st.P[p].ws, payload)

BroadcastToLobby(st, lobby, payload, excludePlayerId) ==
  LET toHost == IF lobby.host # None /\ lobby.host # excludePlayerId
                  THEN SendToPlayer(st, lobby.host, payload) ELSE st
  IN IF lobby.guest # None /\ lobby.guest # excludePlayerId
       THEN SendToPlayer(toHost, lobby.guest, payload) ELSE toHost

GetOpponentColor(color) == IF color = "white" THEN "black" ELSE "white"

ErrorMsg(code) == [type |-> "error", code |-> code]

\* the seat released without clearTimeout(player.disconnectTimer)
ClearSeat_KeepsTimer(player) ==
  [player EXCEPT !.gameId = None, !.color = Absent]

ClearSeat(player) ==
  [player EXCEPT !.gameId = None, !.color = Absent, !.disconnectTimer = FALSE]

\* ------------------------------------------------- lobby operations
\* createLobby(host, preferredColor); coin is Math.random() < 0.5, gameId the
\* value generateGameId() returned, uid the serial of the new lobby object.
CreateLobby(st, host, preferredColor, coin, gameId, uid) ==
  LET color == IF preferredColor \in {"white", "black"} THEN preferredColor ELSE coin
      lobby == [uid |-> uid, gameId |-> gameId, host |-> host, guest |-> None,
                chess |-> StartPosition, status |-> "waiting", moves |-> <<>>,
                result |-> Absent, resultReason |-> Absent]
      seated == [st EXCEPT !.P[host].gameId = gameId, !.P[host].color = color]
      told == SafeSend(seated, seated.P[host].ws,
                       [type |-> "created", gameId |-> gameId, color |-> color])
  IN [told EXCEPT !.L = PutKey(@, gameId, lobby)]

\* startGame(lobby), for the lobby registered under g
StartGame(st, g) ==
  LET lobby == st.L[g] IN
  IF lobby.host = None \/ lobby.guest = None THEN st
  ELSE
    LET hostWhite == st.P[lobby.host].color = "white"
        hostBlack == st.P[lobby.host].color = "black"
        payload == [type |-> "start", gameId |-> lobby.gameId,
                    fen |-> StartPosition, turn |-> TurnColor(StartPosition),
                    white |-> IF hostWhite THEN lobby.host ELSE lobby.guest,
                    black |-> IF hostBlack THEN lobby.host ELSE lobby.guest]
        started == [st EXCEPT !.L[g].status = "active",
                              !.L[g].chess = StartPosition,
                              !.L[g].moves = <<>>]
        toHost == SendToPlayer(started, lobby.host,
                               payload @@ [color |-> st.P[lobby.host].color])
    IN SendToPlayer(toHost, lobby.guest,
                    payload @@ [color |-> st.P[lobby.guest].color])

\* LOBBIES.delete(lobby.gameId) left out: the completed lobby stays registered
DeleteLobby_Skipped(L, g) == L

\* LOBBIES.delete(lobby.gameId) at the end of finalizeGame
DeleteLobby(L, g) == RemoveKey(L, g)

\* the body of finalizeGame after its guard: mark the lobby completed, tell
\* both seats, release the participants, unregister the lobby.  by is the
\* participant whose message or timer led to the call (history only).
CompleteGame(st, lobby, result, reason, by) ==
  LET told == BroadcastToLobby(st, lobby,
                [type |-> "game_over", gameId |-> lobby.gameId,
                 result |-> result, reason |-> reason], None)
      participants == {lobby.host, lobby.guest} \ {None}
      done == [lobby EXCEPT !.status = "completed", !.result = result,
                            !.resultReason = reason,
                            !.host = None, !.guest = None]
  IN [told EXCEPT
        !.P = [p \in DOMAIN told.P |->
                 IF p \in participants THEN ClearSeat(told.P[p]) ELSE told.P[p]],
        !.L = DeleteLobby(PutKey(@, lobby.gameId, done), lobby.gameId),
        !.fin = Append(@, [uid |-> done.uid, gameId |-> done.gameId,
                           status |-> done.status, result |-> done.result,
                           reason |-> done.resultReason,
                           host |-> lobby.host, guest |-> lobby.guest,
                           from |-> lobby.status, by |-> by])]

\* finalizeGame without its guard on an already completed lobby
FinalizeGame_Unguarded(st, lobby, result, reason, by) ==
  CompleteGame(st, lobby, result, reason, by)

\* finalizeGame(lobby, result, reason)
FinalizeGame(st, lobby, result, reason, by) ==
  IF lobby.status = "completed" THEN st
  ELSE CompleteGame(st, lobby, result, reason, by)

\* removePlayerFromLobby(player)
RemovePlayerFromLobby(st, p) ==
  IF p = None \/ st.P[p].gameId = None THEN st
  ELSE
    LET g == st.P[p].gameId IN
    IF g \notin DOMAIN st.L
      THEN [st EXCEPT !.P[p] = ClearSeat(@)]
      ELSE
        LET lobby == st.L[g]
            host2 == IF lobby.host = p THEN None ELSE lobby.host
            guest2 == IF lobby.guest = p THEN None ELSE lobby.guest
            left == [st EXCEPT !.P[p] = ClearSeat(@)]
        IN IF host2 = None /\ guest2 = None
             THEN [left EXCEPT !.L = RemoveKey(@, lobby.gameId)]
             ELSE [left EXCEPT !.L[g].host = host2, !.L[g].guest = guest2,
                               !.L[g].status = "waiting"]

\* attachPlayerToLobby without its closing call of startGame
AttachPlayerToLobby_NoStart(st, g, p) ==
  [st EXCEPT !.P[p].gameId = st.L[g].gameId,
             !.P[p].color = GetOpponentColor(st.P[st.L[g].host].color),
             !.L[g].guest = p]

\* attachPlayerToLobby giving the guest the side of the host
AttachPlayerToLobby_SameSide(st, g, p) ==
  LET seated == [st EXCEPT !.P[p].gameId = st.L[g].gameId,
                           !.P[p].color = st.P[st.L[g].host].color,
                           !.L[g].guest = p]
  IN StartGame(seated, g)

\* attachPlayerToLobby(lobby, player), for the lobby registered under g
AttachPlayerToLobby(st, g, p) ==
  LET guestColor == GetOpponentColor(st.P[st.L[g].host].color)
      seated == [st EXCEPT !.P[p].gameId = st.L[g].gameId,
                           !.P[p].color = guestColor,
                           !.L[g].guest = p]
  IN StartGame(seated, g)

\* ------------------------------------------------------- handlers
\* player.disconnectTimer is modelled by whether a timeout is pending: a handle
\* that has fired is inert (clearTimeout on it does nothing).
\* player.lastPongAt is only ever written and is left out.  player.lastPingAt
\* is None until the first ping and Earlier between sweeps; player.createdAt
\* is kept as whether it lies more than the retention window back.
Earlier == 1
Running == 2

NewPlayer(c) ==
  [ws |-> c, gameId |-> None, color |-> Absent, disconnectTimer |-> FALSE,
   awaitingPong |-> FALSE, lastPingAt |-> None, createdLongAgo |-> FALSE]

\* handleHello(ws, {playerId, gameId})
HandleHelloSt(st, c, requestedPlayerId, gameId) ==
  LET known == requestedPlayerId # None /\ requestedPlayerId \in DOMAIN st.P
      pid == IF known THEN requestedPlayerId ELSE st.ids + 1
      bound == IF known
                 THEN [st EXCEPT !.P[pid].ws = c, !.P[pid].disconnectTimer = FALSE,
                                 !.P[pid].awaitingPong = FALSE, !.C[c].pid = pid]
                 ELSE [st EXCEPT !.P = PutKey(@, pid, NewPlayer(c)), !.C[c].pid = pid,
                                 !.ids = pid]
      greeted == SafeSend(bound, c, [type |-> "hello", playerId |-> pid])
  IN IF gameId # None /\ greeted.P[pid].gameId = gameId /\ gameId \in DOMAIN greeted.L
       THEN LET lobby == greeted.L[gameId] IN
            SendToPlayer(greeted, pid,
              [type |-> "resume", gameId |-> gameId, fen |-> lobby.chess,
               turn |-> TurnColor(lobby.chess), color |-> greeted.P[pid].color,
               moves |-> lobby.moves, result |-> lobby.result,
               reason |-> lobby.resultReason])
       ELSE greeted

\* handleCreate releasing the seat of a participant it refuses
HandleCreateSt_DropsSeat(st, c, preferredColor, coin, gameId, uid) ==
  LET player == GetPlayer(st, c) IN
  IF player = None THEN SafeSend(st, c, ErrorMsg("NOT_IDENTIFIED"))
  ELSE IF st.P[player].gameId # None
    THEN SafeSend([st EXCEPT !.P[player] = ClearSeat(@)], c, ErrorMsg("ALREADY_IN_GAME"))
  ELSE CreateLobby(st, player, preferredColor, coin, gameId, uid)

\* handleCreate(ws, {color}) with the random values createLobby draws
HandleCreateSt(st, c, preferredColor, coin, gameId, uid) ==
  LET player == GetPlayer(st, c) IN
  IF player = None THEN SafeSend(st, c, ErrorMsg("NOT_IDENTIFIED"))
  ELSE IF st.P[player].gameId # None THEN SafeSend(st, c, ErrorMsg("ALREADY_IN_GAME"))
  ELSE CreateLobby(st, player, preferredColor, coin, gameId, uid)

\* handleJoin without the test of the lobby's status and guest seat
HandleJoinSt_IntoFull(st, c, gameId) ==
  LET player == GetPlayer(st, c) IN
  IF player = None THEN SafeSend(st, c, ErrorMsg("NOT_IDENTIFIED"))
  ELSE IF st.P[player].gameId # None THEN SafeSend(st, c, ErrorMsg("ALREADY_IN_GAME"))
  ELSE IF gameId = None THEN SafeSend(st, c, ErrorMsg("INVALID_GAME_ID"))
  ELSE IF gameId \notin DOMAIN st.L THEN SafeSend(st, c, ErrorMsg("GAME_NOT_FOUND"))
  ELSE AttachPlayerToLobby(st, gameId, player)

\* handleJoin(ws, {gameId})
HandleJoinSt(st, c, gameId) ==
  LET player == GetPlayer(st, c) IN
  IF player = None THEN SafeSend(st, c, ErrorMsg("NOT_IDENTIFIED"))
  ELSE IF st.P[player].gameId # None THEN SafeSend(st, c, ErrorMsg("ALREADY_IN_GAME"))
  ELSE IF gameId = None THEN SafeSend(st, c, ErrorMsg("INVALID_GAME_ID"))
  ELSE IF gameId \notin DOMAIN st.L THEN SafeSend(st, c, ErrorMsg("GAME_NOT_FOUND"))
  ELSE IF st.L[gameId].status # "waiting" \/ st.L[gameId].guest # None
    THEN SafeSend(st, c, ErrorMsg("LOBBY_FULL"))
  ELSE AttachPlayerToLobby(st, gameId, player)

\* validateMovePayload(payload)
ValidateMovePayload(payload) ==
  /\ payload.gameId # None
  /\ payload.playerId # None
  /\ (payload.san # Absent \/ payload.uci # Absent)

\* determineGameOutcome with the two checkmate results exchanged
DetermineGameOutcome_MoverLoses(chess, moverColor) ==
  IF chess.over = "checkmate"
    THEN [result |-> IF moverColor = "white" THEN "0-1" ELSE "1-0", reason |-> "checkmate"]
  ELSE IF chess.over \in {"stalemate", "threefold", "insufficient_material", "draw"}
    THEN [result |-> "1/2-1/2", reason |-> chess.over]
  ELSE [result |-> Absent, reason |-> Absent]

\* determineGameOutcome(chessInstance, moverColor): [result, reason], reason
\* Absent for null
DetermineGameOutcome(chess, moverColor) ==
  IF chess.over = "checkmate"
    THEN [result |-> IF moverColor = "white" THEN "1-0" ELSE "0-1", reason |-> "checkmate"]
  ELSE IF chess.over = "stalemate" THEN [result |-> "1/2-1/2", reason |-> "stalemate"]
  ELSE IF chess.over = "threefold" THEN [result |-> "1/2-1/2", reason |-> "threefold"]
  ELSE IF chess.over = "insufficient_material"
    THEN [result |-> "1/2-1/2", reason |-> "insufficient_material"]
  ELSE IF chess.over = "draw" THEN [result |-> "1/2-1/2", reason |-> "draw"]
  ELSE [result |-> Absent, reason |-> Absent]

\* handleMove with the terminal check ahead of the move broadcast
HandleMoveSt_OverFirst(st, c, payload) ==
  LET player == GetPlayer(st, c) IN
  IF ~ValidateMovePayload(payload) THEN SafeSend(st, c, ErrorMsg("INVALID_PAYLOAD"))
  ELSE IF player = None \/ player # payload.playerId
    THEN SafeSend(st, c, ErrorMsg("PLAYER_MISMATCH"))
  ELSE IF st.P[player].gameId = None THEN SafeSend(st, c, ErrorMsg("NOT_IN_GAME"))
  ELSE IF st.P[player].gameId # payload.gameId THEN SafeSend(st, c, ErrorMsg("NOT_IN_GAME"))
  ELSE IF st.P[player].gameId \notin DOMAIN st.L
            \/ st.L[st.P[player].gameId].status # "active"
    THEN SafeSend(st, c, ErrorMsg("INVALID_LOBBY"))
  ELSE
    LET g == st.P[player].gameId
        lobby == st.L[g]
        moverColor == st.P[player].color
    IN
    IF moverColor # TurnColor(lobby.chess) THEN SafeSend(st, c, ErrorMsg("WRONG_TURN"))
    ELSE
      \* uci.slice(...) throws when uci is undefined; the catch leaves null
      LET moveResult == IF payload.uci = Absent THEN NoMove
                        ELSE ChessMoveUci(lobby.chess, payload.uci)
      IN
      IF moveResult = NoMove THEN SafeSend(st, c, ErrorMsg("ILLEGAL_MOVE"))
      ELSE
        LET chess2 == ChessApply(lobby.chess, moveResult)
            moved == [st EXCEPT !.L[g].chess = chess2,
                                !.L[g].moves = Append(@,
                                   [playerId |-> player, uci |-> payload.uci,
                                    san |-> Absent, fenAfter |-> chess2])]
            outcome == DetermineGameOutcome(chess2, moverColor)
            checked == IF outcome.reason # Absent
                         THEN FinalizeGame(moved, moved.L[g], outcome.result,
                                           outcome.reason, player)
                         ELSE moved
        IN BroadcastToLobby(checked, moved.L[g],
             [type |-> "move", gameId |-> payload.gameId, playerId |-> player,
              uci |-> payload.uci, fen |-> chess2, turn |-> TurnColor(chess2)],
             None)


\* handleMove(ws, payload) of src/src/onlinePlayServer.js
HandleMoveSt(st, c, payload) ==
  LET player == GetPlayer(st, c) IN
  IF ~ValidateMovePayload(payload) THEN SafeSend(st, c, ErrorMsg("INVALID_PAYLOAD"))
  ELSE IF player = None \/ player # payload.playerId
    THEN SafeSend(st, c, ErrorMsg("PLAYER_MISMATCH"))
  ELSE IF st.P[player].gameId = None THEN SafeSend(st, c, ErrorMsg("NOT_IN_GAME"))
  ELSE IF st.P[player].gameId # payload.gameId THEN SafeSend(st, c, ErrorMsg("NOT_IN_GAME"))
  ELSE IF st.P[player].gameId \notin DOMAIN st.L
            \/ st.L[st.P[player].gameId].status # "active"
    THEN SafeSend(st, c, ErrorMsg("INVALID_LOBBY"))
  ELSE
    LET g == st.P[player].gameId
        lobby == st.L[g]
        moverColor == st.P[player].color
    IN
    IF moverColor # TurnColor(lobby.chess) THEN SafeSend(st, c, ErrorMsg("WRONG_TURN"))
    ELSE
      \* uci.slice(...) throws when uci is undefined; the catch leaves null
      LET moveResult == IF payload.uci = Absent THEN NoMove
                        ELSE ChessMoveUci(lobby.chess, payload.uci)
      IN
      IF moveResult = NoMove THEN SafeSend(st, c, ErrorMsg("ILLEGAL_MOVE"))
      ELSE
        LET chess2 == ChessApply(lobby.chess, moveResult)
            moved == [st EXCEPT !.L[g].chess = chess2,
                                !.L[g].moves = Append(@,
                                   [playerId |-> player, uci |-> payload.uci,
                                    san |-> Absent, fenAfter |-> chess2])]
            told == BroadcastToLobby(moved, moved.L[g],
                      [type |-> "move", gameId |-> payload.gameId, playerId |-> player,
                       uci |-> payload.uci, fen |-> chess2, turn |-> TurnColor(chess2)],
                      None)
            outcome == DetermineGameOutcome(chess2, moverColor)
        IN IF outcome.reason # Absent
             THEN FinalizeGame(told, told.L[g], outcome.result, outcome.reason, player)
             ELSE told

\* determineGameOverReason(chessInstance) of src/unnamed/part_003
DetermineGameOverReason(chess) ==
  IF chess.over \in {"checkmate", "stalemate", "threefold", "insufficient_material", "draw"}
    THEN chess.over
    ELSE "completed"

\* handleMove(ws, payload) of src/unnamed/part_003
HandleMovePart003St(st, c, payload) ==
  LET player == GetPlayer(st, c) IN
  IF ~ValidateMovePayload(payload) THEN SafeSend(st, c, ErrorMsg("INVALID_PAYLOAD"))
  ELSE IF player = None \/ player # payload.playerId
    THEN SafeSend(st, c, ErrorMsg("NOT_IDENTIFIED"))
  ELSE IF payload.gameId \notin DOMAIN st.L \/ st.L[payload.gameId].status = "completed"
    THEN SafeSend(st, c, ErrorMsg("GAME_NOT_FOUND"))
  ELSE IF st.P[player].gameId # st.L[payload.gameId].gameId
    THEN SafeSend(st, c, ErrorMsg("NOT_IN_GAME"))
  ELSE IF st.L[payload.gameId].status \notin {"active", "waiting"}
    THEN SafeSend(st, c, ErrorMsg("GAME_INACTIVE"))
  ELSE IF st.L[payload.gameId].status # "active"
    THEN SafeSend(st, c, ErrorMsg("WAITING_OPPONENT"))
  ELSE
    LET g == payload.gameId
        lobby == st.L[g]
    IN
    IF st.P[player].color # TurnColor(lobby.chess)
      THEN SafeSend(st, c, ErrorMsg("NOT_YOUR_TURN"))
    ELSE
      LET moveResult == IF payload.uci # Absent THEN ChessMoveUci(lobby.chess, payload.uci)
                        ELSE IF payload.san # Absent THEN ChessMoveSan(lobby.chess, payload.san)
                        ELSE NoMove
      IN
      IF moveResult = NoMove THEN SafeSend(st, c, ErrorMsg("ILLEGAL_MOVE"))
      ELSE
        LET chess2 == ChessApply(lobby.chess, moveResult)
            moved == [st EXCEPT !.L[g].chess = chess2,
                                !.L[g].moves = Append(@,
                                   [playerId |-> player, uci |-> moveResult.uci,
                                    san |-> moveResult.san, fenAfter |-> chess2])]
            told == BroadcastToLobby(moved, moved.L[g],
                      [type |-> "move", gameId |-> lobby.gameId, uci |-> moveResult.uci,
                       san |-> moveResult.san, fen |-> chess2, turn |-> TurnColor(chess2)],
                      None)
        IN IF chess2.over # "none"
             THEN FinalizeGame(told, told.L[g],
                    IF DetermineGameOverReason(chess2) = "checkmate"
                      THEN (IF st.P[player].color = "white" THEN "1-0" ELSE "0-1")
                      ELSE "1/2-1/2",
                    DetermineGameOverReason(chess2), player)
             ELSE told

\* handleResign with the result awarded to the side that resigns
HandleResignSt_ActorWins(st, c, gameId) ==
  LET player == GetPlayer(st, c) IN
  IF player = None THEN SafeSend(st, c, ErrorMsg("NOT_IDENTIFIED"))
  ELSE IF gameId = None THEN SafeSend(st, c, ErrorMsg("INVALID_GAME_ID"))
  ELSE IF gameId \notin DOMAIN st.L THEN SafeSend(st, c, ErrorMsg("GAME_NOT_FOUND"))
  ELSE IF st.P[player].gameId # st.L[gameId].gameId
    THEN SafeSend(st, c, ErrorMsg("NOT_IN_GAME"))
  ELSE FinalizeGame(st, st.L[gameId],
                    IF st.P[player].color = "white" THEN "1-0" ELSE "0-1",
                    "resign", player)

\* handleResign(ws, {gameId})
HandleResignSt(st, c, gameId) ==
  LET player == GetPlayer(st, c) IN
  IF player = None THEN SafeSend(st, c, ErrorMsg("NOT_IDENTIFIED"))
  ELSE IF gameId = None THEN SafeSend(st, c, ErrorMsg("INVALID_GAME_ID"))
  ELSE IF gameId \notin DOMAIN st.L THEN SafeSend(st, c, ErrorMsg("GAME_NOT_FOUND"))
  ELSE IF st.P[player].gameId # st.L[gameId].gameId
    THEN SafeSend(st, c, ErrorMsg("NOT_IN_GAME"))
  ELSE FinalizeGame(st, st.L[gameId],
                    IF st.P[player].color = "white" THEN "0-1" ELSE "1-0",
                    "resign", player)

\* handleLeave(ws)
HandleLeaveSt(st, c) ==
  LET player == GetPlayer(st, c) IN
  IF player = None THEN SafeSend(st, c, ErrorMsg("NOT_IDENTIFIED"))
  ELSE IF st.P[player].gameId = None THEN SafeSend(st, c, [type |-> "left", gameId |-> None])
  ELSE IF st.P[player].gameId \notin DOMAIN st.L
    THEN SafeSend([st EXCEPT !.P[player].gameId = None, !.P[player].color = Absent],
                  c, [type |-> "left", gameId |-> None])
  ELSE
    LET lobby == st.L[st.P[player].gameId]
        gone == IF lobby.status = "active"
                  THEN FinalizeGame(st, lobby,
                         IF st.P[player].color = "white" THEN "0-1" ELSE "1-0",
                         "left", player)
                  ELSE RemovePlayerFromLobby(
                         BroadcastToLobby(st, lobby,
                           [type |-> "opponent_disconnect", gameId |-> lobby.gameId,
                            playerId |-> player], player),
                         player)
    IN SafeSend(gone, c, [type |-> "left", gameId |-> lobby.gameId])

\* handleDisconnect(ws), called with the connection already in state closing
\* or closed; arms the 60 s grace timer
HandleDisconnectSt(st, c) ==
  LET player == GetPlayer(st, c) IN
  IF player = None THEN st
  ELSE
    LET lost == [st EXCEPT !.P[player].ws = None, !.P[player].awaitingPong = FALSE,
                           !.P[player].disconnectTimer = TRUE]
        g == lost.P[player].gameId
    IN IF g # None /\ g \in DOMAIN lost.L /\ lost.L[g].status = "active"
         THEN BroadcastToLobby(lost, lost.L[g],
                [type |-> "opponent_disconnect", gameId |-> lost.L[g].gameId,
                 playerId |-> player], player)
         ELSE lost

\* handlePong(ws)
HandlePongSt(st, c) ==
  LET player == GetPlayer(st, c) IN
  IF player = None THEN st ELSE [st EXCEPT !.P[player].awaitingPong = FALSE]

PING_INTERVAL_MS == 30000
PONG_GRACE_MS == 10000

\* now - player.lastPingAt, for a sweep that runs one interval after the last
SinceLastPing(lastPingAt) == IF lastPingAt = Running THEN 0 ELSE PING_INTERVAL_MS

\* the body of wss.clients.forEach in the ping timer; client.terminate() leaves
\* the socket closing, its 'close' event still to come
PingClient(st, client) ==
  LET player == GetPlayer(st, client) IN
  IF st.C[client].state = "closed" \/ player = None THEN st
  ELSE IF /\ st.P[player].awaitingPong
          /\ st.P[player].lastPingAt # None
          /\ SinceLastPing(st.P[player].lastPingAt) > PONG_GRACE_MS
    THEN [st EXCEPT !.C[client].state = "closing"]
  ELSE [SafeSend(st, client, [type |-> "ping"])
          EXCEPT !.P[player].awaitingPong = TRUE, !.P[player].lastPingAt = Running]

RECURSIVE ForEachClient(_, _)
ForEachClient(st, client) ==
  IF client > Len(st.C) THEN st
  ELSE ForEachClient(PingClient(st, client), client + 1)

\* scheduleCleanup()
ScheduleCleanup(st) ==
  LET stalePlayers == {p \in DOMAIN st.P : /\ st.P[p].ws = None
                                           /\ st.P[p].gameId = None
                                           /\ st.P[p].createdLongAgo}
  IN [st EXCEPT !.P = [p \in DOMAIN st.P \ stalePlayers |-> st.P[p]]]

\* the sweep is over: its pings are those of an earlier sweep from now on
SweepDone(st) ==
  [st EXCEPT !.P = [p \in DOMAIN st.P |->
                      IF st.P[p].lastPingAt = Running
                        THEN [st.P[p] EXCEPT !.lastPingAt = Earlier]
                        ELSE st.P[p]]]

\* the callback of the ping timer
PingTimerSt(st) == SweepDone(ScheduleCleanup(ForEachClient(st, 1)))

\* An inbound frame: whether JSON.parse accepts it, and the fields of the
\* parsed payload (type Absent for a payload without a type, such as null).
\* draw holds the random values a create would use.
Dispatch(st, c, message, draw) ==
  CASE message.type = "hello" -> HandleHelloSt(st, c, message.playerId, message.gameId)
    [] message.type = "create" ->
         HandleCreateSt(st, c, message.color, draw.coin, draw.gameId, draw.uid)
    [] message.type = "join" -> HandleJoinSt(st, c, message.gameId)
    [] message.type = "move" ->
         HandleMoveSt(st, c, [gameId |-> message.gameId, playerId |-> message.playerId,
                              uci |-> message.uci, san |-> message.san])
    [] message.type = "resign" -> HandleResignSt(st, c, message.gameId)
    [] message.type = "leave" -> HandleLeaveSt(st, c)
    [] message.type = "pong" -> HandlePongSt(st, c)
    [] OTHER -> SafeSend(st, c, ErrorMsg("UNKNOWN_TYPE"))

\* handleMessage that drops a frame it cannot parse without answering
HandleMessageSt_SilentOnBadJson(st, c, message, draw) ==
  IF ~message.parses THEN st ELSE Dispatch(st, c, message, draw)

\* handleMessage(ws, message)
HandleMessageSt(st, c, message, draw) ==
  IF ~message.parses
    THEN SafeSend(st, c, ErrorMsg("INVALID_JSON"))
    ELSE Dispatch(st, c, message, draw)

\* the timer callback without its first line, if (player.ws) return
DisconnectTimeoutSt_Unconditional(st, p) ==
  LET fired == [st EXCEPT !.P[p].disconnectTimer = FALSE] IN
  IF fired.P[p].gameId = None THEN fired
  ELSE IF fired.P[p].gameId \notin DOMAIN fired.L
    THEN [fired EXCEPT !.P[p].gameId = None, !.P[p].color = Absent]
  ELSE
    LET lobby == fired.L[fired.P[p].gameId] IN
    IF lobby.status = "active"
      THEN FinalizeGame(fired, lobby,
             IF fired.P[p].color = "white" THEN "0-1" ELSE "1-0",
             "disconnect_timeout", p)
      ELSE RemovePlayerFromLobby(fired, p)

\* the callback handleDisconnect passed to setTimeout, for player p
DisconnectTimeoutSt(st, p) ==
  LET fired == [st EXCEPT !.P[p].disconnectTimer = FALSE] IN
  IF fired.P[p].ws # None THEN fired
  ELSE IF fired.P[p].gameId = None THEN fired
  ELSE IF fired.P[p].gameId \notin DOMAIN fired.L
    THEN [fired EXCEPT !.P[p].gameId = None, !.P[p].color = Absent]
  ELSE
    LET lobby == fired.L[fired.P[p].gameId] IN
    IF lobby.status = "active"
      THEN FinalizeGame(fired, lobby,
             IF fired.P[p].color = "white" THEN "0-1" ELSE "1-0",
             "disconnect_timeout", p)
      ELSE RemovePlayerFromLobby(fired, p)

\* ------------------------------------------- src/src/stockfishService.js
\* One getBestMove call (the later definition in the file, lines 595-891).
\* READY_TIMEOUT_MS
READY_TIMEOUT_MS == 6000

\* the timeoutMs argument: whether typeof gives 'number', and its value
Undefined == [isNumber |-> FALSE, value |-> 0]

\* the depth and movetime arguments: whether typeof gives 'number', and the
\* value in tenths
NoNumber == [isNumber |-> FALSE, tenths |-> 0]
Tenths(t) == [isNumber |-> TRUE, tenths |-> t]
DEFAULT_MOVETIME_MS == 1000

\* Math.round
Round(x) == (x.tenths + 5) \div 10

\* the call before getBestMove is entered
NoCall ==
  [timeoutMs |-> Undefined,
   depth |-> NoNumber,
   movetime |-> NoNumber,
   goValue |-> 0,             \* the number written in the go command
   evaluation |-> "null",     \* let evaluation: null, or the stage its line was read in
   rawScore |-> "null",       \* the last score in rawOutput: the stage its line was read in
   result |-> "null",         \* result.evaluation: the stage its line was read in
   seen |-> {},               \* history: the sentinel lines handled so far
   outcome |-> "not_called",  \* the promise: pending, or how the call settled
   resolved |-> FALSE,        \* let resolved
   stage |-> "uci",           \* let stage
   spawns |-> 0,              \* calls of spawn()
   proc |-> "none",           \* the subprocess: none, running, exited, failed
   signalled |-> FALSE,       \* SIGTERM was delivered to the subprocess
   killed |-> FALSE,          \* engine.killed
   timers |-> 0,              \* calls of setTimeout()
   timer |-> "none",          \* none, armed, fired, cleared
   localTimeout |-> 0,
   writable |-> FALSE,        \* canWriteToEngine()
   listening |-> FALSE,       \* rl has its 'line' and 'close' listeners
   ended |-> FALSE,           \* the output stream has ended
   exitPending |-> FALSE,     \* an 'exit' event is queued
   errorPending |-> FALSE,    \* an 'error' event is queued
   pipe |-> <<>>,             \* output lines not yet read
   sent |-> <<>>,             \* commands written to stdin
   multiPv |-> 1,
   stderrBuffer |-> 0,        \* let stderrBuffer: the chunks captured so far
   carried |-> 0,             \* the chunks in the Stderr part of the rejection
   settledAt |-> [proc |-> "none", stderr |-> 0],  \* history: at settlement
   settles |-> 0,             \* history: calls of resolve() and reject(), up to MaxCounted
   built |-> 0,               \* history: calls of buildResult(), up to MaxCounted
   late |-> {}]               \* history: what was handled after the timer fired

\* the history counters stop at MaxCounted
MaxCounted == 2
Counted(n) == IF n < MaxCounted THEN n + 1 ELSE n

\* resolve / reject of the promise: only the first one settles it
Settle(c, outcome) ==
  IF c.outcome = "pending"
    THEN [c EXCEPT !.outcome = outcome,
                   !.settledAt = [proc |-> c.proc, stderr |-> c.stderrBuffer],
                   !.settles = Counted(@)]
    ELSE [c EXCEPT !.settles = Counted(@)]

\* sendCommand(message) when stdin is writable
SendCommand(c, message) == [c EXCEPT !.sent = Append(@, message)]

\* terminateEngine without the kill
TerminateEngine_NoKill(c) == [c EXCEPT !.listening = FALSE]

\* terminateEngine that leaves the line reader and its listeners in place
TerminateEngine_StillListening(c) ==
  IF ~c.killed /\ c.proc = "running"
    THEN [c EXCEPT !.killed = TRUE, !.signalled = TRUE]
    ELSE c

\* terminateEngine(): engine.kill succeeds only on a subprocess that still runs
TerminateEngine(c) ==
  LET closed == [c EXCEPT !.listening = FALSE] IN
  IF ~closed.killed /\ closed.proc = "running"
    THEN [closed EXCEPT !.killed = TRUE, !.signalled = TRUE]
    ELSE closed

\* cleanup()
Cleanup(c) ==
  LET cleared == [c EXCEPT !.timer = IF @ = "armed" THEN "cleared" ELSE @]
      quit == IF cleared.writable THEN SendCommand(cleared, "quit") ELSE cleared
  IN TerminateEngine(quit)

\* the pattern `if (!resolved) { resolved = true; cleanup(); reject(...) }`
FailOnce(c, outcome) ==
  IF c.resolved THEN c
  ELSE Settle(Cleanup([c EXCEPT !.resolved = TRUE]), outcome)

\* send(command)
Send(c, command) ==
  IF c.writable THEN SendCommand(c, command) ELSE FailOnce(c, "write_failure")

\* the timer callback that leaves the call pending
TimerCallback_Silent(c) ==
  IF c.resolved THEN c ELSE Cleanup([c EXCEPT !.resolved = TRUE])

\* the callback of setTimeout
TimerCallback(c) == FailOnce(c, "timeout")

\* engine.on('exit'): the rejection ends with the captured stderr text
OnExit(c) ==
  IF c.resolved THEN c
  ELSE [FailOnce(c, "premature_exit") EXCEPT !.carried = c.stderrBuffer]

\* handleLine, the search command of the readyok branch
SendGo(c) ==
  IF c.depth.isNumber /\ c.depth.tenths > 0
    THEN [Send(c, "go depth") EXCEPT !.goValue = Round(c.depth)]
    ELSE LET mt == IF c.movetime.isNumber /\ c.movetime.tenths > 0
                     THEN Round(c.movetime) ELSE DEFAULT_MOVETIME_MS
         IN [Send(c, "go movetime") EXCEPT !.goValue = mt]

\* buildResult, result.evaluation: the evaluation variable, else the last
\* score found in rawOutput
BuildResult(c) ==
  [c EXCEPT !.result = IF c.evaluation # "null" THEN c.evaluation ELSE c.rawScore,
            !.built = Counted(@)]

\* handleLine(line); line is "" for an empty line, else the kind of its text;
\* an "info" line carries a score
HandleLine(c, line) ==
  IF line = "" THEN c
  ELSE LET raw == [c EXCEPT !.rawScore = IF line = "info" THEN c.stage ELSE @,
                            !.seen = IF line \in {"uciok", "readyok"}
                                       THEN @ \cup {line} ELSE @]
  IN IF raw.stage = "uci" /\ line = "uciok"
    THEN LET skill == Send(raw, "setoption Skill Level")
             multi == IF raw.multiPv > 1 THEN Send(skill, "setoption MultiPV") ELSE skill
         IN [Send(multi, "isready") EXCEPT !.stage = "isready"]
  ELSE IF raw.stage = "isready" /\ line = "readyok"
    THEN [SendGo(Send(raw, "position")) EXCEPT !.stage = "go"]
  ELSE IF raw.stage = "go" /\ line = "info"
    THEN [raw EXCEPT !.evaluation = "go"]
  ELSE IF raw.stage = "go" /\ line = "bestmove"
    THEN BuildResult(Settle(Cleanup([raw EXCEPT !.resolved = TRUE]), "bestmove"))
  ELSE raw

\* const localTimeout = typeof timeoutMs === 'number' && timeoutMs > 0 ? ...
LocalTimeout(timeoutMs) ==
  IF timeoutMs.isNumber /\ timeoutMs.value > 0 THEN timeoutMs.value ELSE READY_TIMEOUT_MS

\* getBestMove up to the end of the promise executor. spawned tells what
\* spawn() did: "throws", "fails" (an 'error' event follows) or "runs".
GetBestMoveSt(configured, fen, timeoutMs, depth, movetime, multiPv, spawned, stdin) ==
  IF ~configured THEN [NoCall EXCEPT !.outcome = "not_configured"]
  ELSE IF ~fen THEN [NoCall EXCEPT !.outcome = "fen_required"]
  ELSE IF spawned = "throws" THEN [NoCall EXCEPT !.outcome = "spawn_failure", !.spawns = 1]
  ELSE Send([NoCall EXCEPT !.outcome = "pending",
                           !.timeoutMs = timeoutMs,
                           !.depth = depth,
                           !.movetime = movetime,
                           !.spawns = 1,
                           !.proc = IF spawned = "runs" THEN "running" ELSE "failed",
                           !.errorPending = (spawned = "fails"),
                           !.writable = stdin,
                           !.listening = TRUE,
                           !.multiPv = multiPv,
                           !.timers = 1,
                           !.timer = "armed",
                           !.localTimeout = LocalTimeout(timeoutMs)],
            "uci")

\* ------------------------------------ evaluations and their scores
\* no function was applied
NoProbe == [op |-> "none"]

\* null, for an evaluation and for a score
NoEvaluation == [type |-> "null", value |-> 0]
NoScore == [isNull |-> TRUE, cp |-> 0]
Score(n) == [isNull |-> FALSE, cp |-> n]

Abs(n) == IF n < 0 THEN -n ELSE n
Sign(n) == IF n > 0 THEN 1 ELSE IF n < 0 THEN -1 ELSE 0
Min(a, b) == IF a < b THEN a ELSE b
Max(a, b) == IF a > b THEN a ELSE b

\* evaluationToCentipawns(evaluation); values are finite integers
EvaluationToCentipawns(evaluation) ==
  IF evaluation = NoEvaluation THEN NoScore
  ELSE IF evaluation.type = "cp" THEN Score(evaluation.value)
  ELSE IF evaluation.type = "mate"
    THEN IF evaluation.value = 0 THEN NoScore
         ELSE LET sign == IF evaluation.value > 0 THEN 1 ELSE -1
                  distance == Min(Abs(evaluation.value), 100)
              IN Score(sign * (100000 - distance * 1000))
  ELSE NoScore

\* parts[i] of a JS array, undefined past its end
At(parts, i) == IF i + 1 \in DOMAIN parts THEN parts[i + 1] ELSE Absent

\* handleLine on a bestmove line split at white space: the two arguments
\* it passes to buildResult, which returns them as bestMove and ponder
ParseBestmove(parts) ==
  [bestMove |-> At(parts, 1),
   ponder |-> IF At(parts, 3) = "ponder" THEN At(parts, 4) ELSE At(parts, 2)]

\* ------------------------------------------------ multi-line search
\* An info line is abstracted to its multipv tag, if it has one, and to the
\* fields it reports; the value of a reported field is the serial
\* number of the line, so that a later report differs from an earlier one.
\* A field that is not reported, and an undefined entry field, is 0.
NoEntry == [depth |-> 0, evaluation |-> 0, pv |-> 0]

\* const clampedMultiPv = Math.min(Math.max(Number.parseInt(multiPv, 10) || 1, 1), 10)
ClampedMultiPv(multiPv) ==
  LET parsed == IF multiPv.isNumber /\ multiPv.value # 0 THEN multiPv.value ELSE 1
  IN Min(Max(parsed, 1), 10)

\* the fields of one line written over those of an entry
Report(entry, line, k) ==
  [depth |-> IF line.depth THEN k ELSE entry.depth,
   evaluation |-> IF line.score THEN k ELSE entry.evaluation,
   pv |-> IF line.pv THEN k ELSE entry.pv]

\* processInfoLine(line) on the map multiPvLines; an untagged line is line 1
ProcessInfoLine(multiPvLines, line, k) ==
  LET idx == IF line.tagged THEN line.multipv ELSE 1
      entry == IF idx \in DOMAIN multiPvLines THEN multiPvLines[idx] ELSE NoEntry
  IN PutKey(multiPvLines, idx, Report(entry, line, k))

\* parseMultiPvFromRaw(rawOutput): only the lines tagged with a positive index
RECURSIVE ParseMultiPvFromRaw(_, _)
ParseMultiPvFromRaw(rawOutput, k) ==
  IF k = 0 THEN <<>>
  ELSE LET map == ParseMultiPvFromRaw(rawOutput, k - 1)
           line == rawOutput[k]
       IN IF ~line.tagged \/ line.multipv <= 0 THEN map
          ELSE PutKey(map, line.multipv,
                      Report(IF line.multipv \in DOMAIN map THEN map[line.multipv]
                             ELSE NoEntry, line, k))

\* a ?? b and a || b on fields whose undefined value is 0
Either(a, b) == IF a # 0 THEN a ELSE b

\* buildResult: the entries of the raw parse merged over those of the map
MergedLines(multiPvLines, rawLines) ==
  [idx \in DOMAIN multiPvLines \cup DOMAIN rawLines |->
     IF idx \in DOMAIN rawLines
       THEN LET data == rawLines[idx]
                existing == IF idx \in DOMAIN multiPvLines THEN multiPvLines[idx]
                            ELSE NoEntry
            IN [depth |-> Either(data.depth, existing.depth),
                evaluation |-> Either(data.evaluation, existing.evaluation),
                pv |-> Either(data.pv, existing.pv)]
       ELSE multiPvLines[idx]]

\* .sort((a, b) => a[0] - b[0]).map(...)
RECURSIVE SortedLines(_, _)
SortedLines(merged, indexes) ==
  IF indexes = {} THEN <<>>
  ELSE LET index == CHOOSE i \in indexes : \A j \in indexes : i <= j IN
       <<[index |-> index] @@ merged[index]>>
         \o SortedLines(merged, indexes \ {index})

\* .slice(0, clampedMultiPv)
Slice(seq, n) == SubSeq(seq, 1, Min(n, Len(seq)))

\* buildResult(...).lines
BuildResultLines(multiPvLines, rawOutput, clampedMultiPv) ==
  LET merged == MergedLines(multiPvLines, ParseMultiPvFromRaw(rawOutput, Len(rawOutput)))
  IN Slice(SortedLines(merged, DOMAIN merged), clampedMultiPv)

\* ------------------------------------------------------ analyzeGame
\* classifyDelta(deltaCp, thresholds); deltaCp is a score, the result is a
\* tag or Absent for null
ClassifyDelta(deltaCp, thresholds) ==
  IF deltaCp.isNull THEN Absent
  ELSE LET magnitude == Abs(deltaCp.cp) IN
       IF magnitude >= thresholds.blunder THEN "blunder"
       ELSE IF magnitude >= thresholds.mistake THEN "mistake"
       ELSE IF magnitude >= thresholds.inaccuracy THEN "inaccuracy"
       ELSE Absent

\* a getBestMove call that threw, and one that resolved with an evaluation
EngineFailed == [failed |-> TRUE, evaluation |-> NoEvaluation]
EngineResult(evaluation) == [failed |-> FALSE, evaluation |-> evaluation]

\* a pre-move call whose failure ends the loop
PreMoveSt_Abort(a, result) ==
  [a EXCEPT !.at = IF result.failed THEN "returned" ELSE "apply-move",
            !.preMoveResult = result,
            !.calls = Append(@, [ply |-> a.idx + 1, context |-> "pre-move",
                                 result |-> result]),
            !.errors = IF result.failed
                         THEN Append(@, [ply |-> a.idx + 1, context |-> "pre-move"])
                         ELSE @]

\* analyzeGame, the pre-move call of the ply at idx: a failure is pushed on
\* the error list and the result is null
PreMoveSt(a, result) ==
  [a EXCEPT !.at = "apply-move",
            !.preMoveResult = result,
            !.calls = Append(@, [ply |-> a.idx + 1, context |-> "pre-move",
                                 result |-> result]),
            !.errors = IF result.failed
                         THEN Append(@, [ply |-> a.idx + 1, context |-> "pre-move"])
                         ELSE @]

\* a rejection that is recorded without leaving the loop
ApplyMoveSt_Continue(a, applied) ==
  IF applied THEN [a EXCEPT !.at = "post-move"]
  ELSE [a EXCEPT !.at = "post-move",
                 !.errors = Append(@, [ply |-> a.idx + 1, context |-> "apply-move"])]

\* analyzeGame, chess.move of the recorded move: a rejection is pushed on the
\* error list and breaks the loop
ApplyMoveSt(a, applied) ==
  IF applied THEN [a EXCEPT !.at = "post-move"]
  ELSE [a EXCEPT !.at = "returned",
                 !.errors = Append(@, [ply |-> a.idx + 1, context |-> "apply-move"])]

\* analyzeGame, from the post-move call to the end of the loop body
PostMoveSt(a, result) ==
  LET ply == a.idx + 1
      bestEvalScore == EvaluationToCentipawns(a.preMoveResult.evaluation)
      postEvalScore == EvaluationToCentipawns(result.evaluation)
      playerActualScore == IF postEvalScore.isNull THEN NoScore
                           ELSE Score(-postEvalScore.cp)
      deltaScore == IF bestEvalScore.isNull \/ playerActualScore.isNull THEN NoScore
                    ELSE Score(bestEvalScore.cp - playerActualScore.cp)
      severity == ClassifyDelta(deltaScore, a.thresholds)
  IN [a EXCEPT !.at = "pre-move",
               !.idx = ply,
               !.calls = Append(@, [ply |-> ply, context |-> "post-move",
                                    result |-> result]),
               !.errors = IF result.failed
                            THEN Append(@, [ply |-> ply, context |-> "post-move"])
                            ELSE @,
               !.evaluationGraph = Append(@, [ply |-> ply, scoreCp |-> postEvalScore]),
               !.annotations = IF severity # Absent
                                 THEN Append(@, [ply |-> ply, severity |-> severity,
                                                 deltaCp |-> deltaScore,
                                                 bestScoreCp |-> bestEvalScore,
                                                 actualScoreCp |-> playerActualScore])
                                 ELSE @]

\* -------------------------------------------------------- actions
\* a second population: one participant more, sharing one connection less
WidePlayers == MaxPlayers + 1
WideConns == MaxConns - 1
PlayerIds == 1..WidePlayers
NoReattach == [conn |-> None, uid |-> None]

InitServer ==
  /\ PLAYERS = <<>>
  /\ LOBBIES = <<>>
  /\ conns = <<>>
  /\ fin = <<>>
  /\ created = 0
  /\ finalized = [u \in 1..MaxLobbies |-> 0]
  /\ reattached = [p \in PlayerIds |-> NoReattach]
  /\ unanswered = {}
  /\ idleLong = [p \in PlayerIds |-> FALSE]
  /\ evicted = {}

Init ==
  /\ InitServer
  /\ call = NoCall
  /\ probe = NoProbe

\* history bookkeeping: a participant stays idle only while its record has
\* neither a connection nor a lobby
StillIdle(P) ==
  [p \in PlayerIds |->
     idleLong[p] /\ p \in DOMAIN P /\ P[p].ws = None /\ P[p].gameId = None]

Store(st) ==
  /\ PLAYERS' = st.P
  /\ LOBBIES' = st.L
  /\ conns' = st.C
  /\ fin' = st.fin
  /\ finalized' = [u \in DOMAIN finalized |->
                     finalized[u] + Cardinality({i \in DOMAIN st.fin : st.fin[i].uid = u})]
  /\ idleLong' = StillIdle(st.P)
  /\ UNCHANGED <<call, probe>>

Commit(st) ==
  /\ Store(st)
  /\ UNCHANGED <<unanswered, evicted>>

OpenConns == {c \in DOMAIN conns : conns[c].state = "open"}

\* history bookkeeping: connection c stopped acting for whoever reattached on it
Detach(c) ==
  [q \in PlayerIds |-> IF reattached[q].conn = c THEN NoReattach ELSE reattached[q]]

SeatedIn(P, L, p, g) ==
  /\ g # None
  /\ g \in DOMAIN L
  /\ p \in {L[g].host, L[g].guest}
  /\ P[p].gameId = g

\* wss.on('connection'): a new socket with __playerId = null; at most
\* maxConns sockets are ever opened
ConnectUpTo(maxConns) ==
  /\ Len(conns) < maxConns
  /\ conns' = Append(conns, [state |-> "open", pid |-> None])
  /\ fin' = <<>>
  /\ UNCHANGED <<PLAYERS, LOBBIES, created, finalized, reattached,
                 unanswered, idleLong, evicted, call, probe>>

Connect == ConnectUpTo(MaxConns)

ConnectWide == ConnectUpTo(WideConns)

\* a hello message; at most maxPlayers participant records are ever created
HelloUpTo(c, requestedPlayerId, gameId, maxPlayers) ==
  /\ c \in OpenConns
  /\ requestedPlayerId \in DOMAIN PLAYERS \/ Cur.ids < maxPlayers
  /\ Commit(HandleHelloSt(Cur, c, requestedPlayerId, gameId))
  /\ reattached' =
       IF requestedPlayerId \in DOMAIN PLAYERS
         THEN LET p == requestedPlayerId
                  g == PLAYERS[p].gameId
                  lost == /\ PLAYERS[p].ws = None
                          /\ PLAYERS[p].disconnectTimer
                          /\ SeatedIn(PLAYERS, LOBBIES, p, g)
                          /\ LOBBIES[g].status = "active"
              IN [Detach(c) EXCEPT ![p] = IF lost THEN [conn |-> c, uid |-> LOBBIES[g].uid]
                                          ELSE NoReattach]
         ELSE Detach(c)
  /\ UNCHANGED created

Hello(c, requestedPlayerId, gameId) ==
  HelloUpTo(c, requestedPlayerId, gameId, MaxPlayers)

HelloWide(c, requestedPlayerId, gameId) ==
  HelloUpTo(c, requestedPlayerId, gameId, WidePlayers)

Create(c, preferredColor, coin, gameId) ==
  /\ c \in OpenConns
  /\ LET creates == GetPlayer(Cur, c) # None /\ PLAYERS[GetPlayer(Cur, c)].gameId = None IN
     /\ creates => created < MaxLobbies
     /\ created' = IF creates THEN created + 1 ELSE created
  /\ Commit(HandleCreateSt(Cur, c, preferredColor, coin, gameId, created + 1))
  /\ UNCHANGED reattached

Join(c, gameId) ==
  /\ c \in OpenConns
  /\ Commit(HandleJoinSt(Cur, c, gameId))
  /\ UNCHANGED <<created, reattached>>

WithinMoves(st) == \A g \in DOMAIN st.L : Len(st.L[g].moves) <= MaxMoves

Move(c, payload) ==
  /\ c \in OpenConns
  /\ WithinMoves(HandleMoveSt(Cur, c, payload))
  /\ Commit(HandleMoveSt(Cur, c, payload))
  /\ UNCHANGED <<created, reattached>>

MovePart003(c, payload) ==
  /\ c \in OpenConns
  /\ WithinMoves(HandleMovePart003St(Cur, c, payload))
  /\ Commit(HandleMovePart003St(Cur, c, payload))
  /\ UNCHANGED <<created, reattached>>

Resign(c, gameId) ==
  /\ c \in OpenConns
  /\ Commit(HandleResignSt(Cur, c, gameId))
  /\ UNCHANGED <<created, reattached>>

Leave(c) ==
  /\ c \in OpenConns
  /\ Commit(HandleLeaveSt(Cur, c))
  /\ UNCHANGED <<created, reattached>>

\* ws.on('error'): the socket is closing, its 'close' event is still to come
WsError(c) ==
  /\ c \in OpenConns
  /\ Commit(HandleDisconnectSt([Cur EXCEPT !.C[c].state = "closing"], c))
  /\ reattached' = Detach(c)
  /\ UNCHANGED created

\* ws.on('close'): the last event of the socket, after which the socket object
\* (and its __playerId) is unreachable
WsClose(c) ==
  /\ c \in DOMAIN conns
  /\ conns[c].state \in {"open", "closing"}
  /\ Commit([HandleDisconnectSt([Cur EXCEPT !.C[c].state = "closed"], c)
               EXCEPT !.C[c].pid = None])
  /\ reattached' = Detach(c)
  /\ UNCHANGED created

\* frames that are not parseable JSON, or carry no type or an unknown one
NoFields ==
  [playerId |-> None, gameId |-> None, color |-> Absent, uci |-> Absent, san |-> Absent]

MalformedMessages ==
  {[parses |-> FALSE, type |-> Absent] @@ NoFields,
   [parses |-> TRUE, type |-> Absent] @@ NoFields,
   [parses |-> TRUE, type |-> "chat"] @@ NoFields,
   [parses |-> TRUE, type |-> "chat", playerId |-> 1, gameId |-> 1,
    color |-> "white", uci |-> "e2e4", san |-> Absent]}

NoDraw == [coin |-> "white", gameId |-> 1, uid |-> None]

Malformed(c, message) ==
  /\ c \in OpenConns
  /\ Commit(HandleMessageSt(Cur, c, message, NoDraw))
  /\ UNCHANGED <<created, reattached>>

\* the 60 s grace timer of player p fires
DisconnectTimeout(p) ==
  /\ p \in DOMAIN PLAYERS
  /\ PLAYERS[p].disconnectTimer
  /\ Commit(DisconnectTimeoutSt(Cur, p))
  /\ UNCHANGED <<created, reattached>>

\* move payloads: every well-formed one, and one for each field that
\* validateMovePayload can find missing
MovePayloads ==
  {[gameId |-> g, playerId |-> p, uci |-> m.uci, san |-> m.san] :
     g \in GameIds, p \in DOMAIN PLAYERS,
     m \in {i \in MoveInputs : i.uci # Absent \/ i.san # Absent}}
  \cup {[gameId |-> None, playerId |-> 1, uci |-> "e2e4", san |-> Absent],
        [gameId |-> 1, playerId |-> None, uci |-> "e2e4", san |-> Absent],
        [gameId |-> 1, playerId |-> 1, uci |-> Absent, san |-> Absent]}

\* a pong message
Pong(c) ==
  /\ c \in OpenConns
  /\ Store(HandlePongSt(Cur, c))
  /\ unanswered' = IF GetPlayer(Cur, c) = None THEN unanswered
                   ELSE {d \in unanswered : GetPlayer(Cur, d) # GetPlayer(Cur, c)}
  /\ UNCHANGED <<created, reattached, evicted>>

PingsOf(st) == {c \in DOMAIN st.C : \E i \in DOMAIN st.out :
                                      st.out[i].to = c /\ st.out[i].type = "ping"}

\* the ping timer fires: one sweep over the sockets, then the cleanup
PingTimer ==
  LET st == PingTimerSt(Cur) IN
  /\ Store(st)
  /\ unanswered' = PingsOf(st)
  /\ evicted' = evicted \cup {[pid |-> p, idleLong |-> idleLong[p]] :
                                p \in DOMAIN PLAYERS \ DOMAIN st.P}
  /\ UNCHANGED <<created, reattached>>

\* the clock passes the hour after the creation of record p (older records first)
HourSinceCreation(p) ==
  /\ p \in DOMAIN PLAYERS
  /\ ~PLAYERS[p].createdLongAgo
  /\ \A q \in DOMAIN PLAYERS : q < p => PLAYERS[q].createdLongAgo
  /\ PLAYERS' = [PLAYERS EXCEPT ![p].createdLongAgo = TRUE]
  /\ fin' = <<>>
  /\ UNCHANGED <<LOBBIES, conns, created, finalized, reattached,
                 unanswered, idleLong, evicted, call, probe>>

\* record p has now been without connection and lobby for over the hour
HourIdle(p) ==
  /\ p \in DOMAIN PLAYERS
  /\ PLAYERS[p].ws = None /\ PLAYERS[p].gameId = None
  /\ PLAYERS[p].createdLongAgo
  /\ ~idleLong[p]
  /\ idleLong' = [idleLong EXCEPT ![p] = TRUE]
  /\ fin' = <<>>
  /\ UNCHANGED <<PLAYERS, LOBBIES, conns, created, finalized, reattached,
                 unanswered, evicted, call, probe>>

AnyPong == \E c \in DOMAIN conns : Pong(c)

AnyHourSinceCreation == \E p \in DOMAIN PLAYERS : HourSinceCreation(p)

AnyHourIdle == \E p \in DOMAIN PLAYERS : HourIdle(p)

\* one inbound message or event of any connection or timer
AnyHello ==
  \E c \in DOMAIN conns, p \in 1..Cur.ids \cup {None}, g \in GameIds \cup {None} :
    Hello(c, p, g)

AnyHelloWide ==
  \E c \in DOMAIN conns, p \in 1..Cur.ids \cup {None}, g \in GameIds \cup {None} :
    HelloWide(c, p, g)

AnyCreate ==
  \E c \in DOMAIN conns, pref \in {"white", "black", Absent},
     coin \in {"white", "black"}, g \in GameIds :
    Create(c, pref, coin, g)

AnyJoin == \E c \in DOMAIN conns, g \in GameIds \cup {None} : Join(c, g)

AnyMove == \E c \in DOMAIN conns, payload \in MovePayloads : Move(c, payload)

AnyMovePart003 == \E c \in DOMAIN conns, payload \in MovePayloads : MovePart003(c, payload)

AnyResign == \E c \in DOMAIN conns, g \in GameIds \cup {None} : Resign(c, g)

AnyLeave == \E c \in DOMAIN conns : Leave(c)

AnyWsError == \E c \in DOMAIN conns : WsError(c)

AnyWsClose == \E c \in DOMAIN conns : WsClose(c)

AnyDisconnectTimeout == \E p \in DOMAIN PLAYERS : DisconnectTimeout(p)

AnyMalformed == \E c \in DOMAIN conns, message \in MalformedMessages : Malformed(c, message)

\* src/src/onlinePlayServer.js
Next ==
  \/ Connect
  \/ AnyHello
  \/ AnyCreate
  \/ AnyJoin
  \/ AnyMove
  \/ AnyResign
  \/ AnyLeave
  \/ AnyWsError
  \/ AnyWsClose
  \/ AnyDisconnectTimeout
  \/ AnyMalformed

Spec == Init /\ [][Next]_vars

\* the same server with one more participant record and one socket less
NextWide ==
  \/ ConnectWide
  \/ AnyHelloWide
  \/ AnyCreate
  \/ AnyJoin
  \/ AnyMove
  \/ AnyResign
  \/ AnyLeave
  \/ AnyWsError
  \/ AnyWsClose
  \/ AnyDisconnectTimeout
  \/ AnyMalformed

SpecWide == Init /\ [][NextWide]_vars

\* the same server with the handleMove of src/unnamed/part_003 deployed
NextPart003 ==
  \/ Connect
  \/ AnyHello
  \/ AnyCreate
  \/ AnyJoin
  \/ AnyMovePart003
  \/ AnyResign
  \/ AnyLeave
  \/ AnyWsError
  \/ AnyWsClose
  \/ AnyDisconnectTimeout
  \/ AnyMalformed

SpecPart003 == Init /\ [][NextPart003]_vars

\* for the sweep, a hello names no lobby and a create draws one id and one color
AnyHelloSweep == \E c \in DOMAIN conns, p \in 1..Cur.ids \cup {None} : Hello(c, p, None)

AnyCreateSweep == \E c \in DOMAIN conns : Create(c, Absent, NoDraw.coin, NoDraw.gameId)

\* the server with its ping timer and the clock of the retention window
NextSweep ==
  \/ Connect
  \/ AnyHelloSweep
  \/ AnyCreateSweep
  \/ AnyLeave
  \/ AnyPong
  \/ AnyWsClose
  \/ PingTimer
  \/ AnyHourSinceCreation
  \/ AnyHourIdle

SpecSweep == Init /\ [][NextSweep]_vars

\* ---------------------------------------------- the engine call
MaxPipe == 2
MaxStderr == 1
ServerVars ==
  <<PLAYERS, LOBBIES, conns, fin, created, finalized, reattached,
    unanswered, idleLong, evicted>>

TimeoutInputs ==
  {Undefined, [isNumber |-> TRUE, value |-> 0], [isNumber |-> TRUE, value |-> 250],
   [isNumber |-> FALSE, value |-> 250]}

EngineLines == {"", "uciok", "readyok", "info", "bestmove"}

\* depth and movetime: neither, depth 0.4, depth 12 with movetime 500,
\* movetime 500, depth '12' (a string)
SearchInputs ==
  {<<NoNumber, NoNumber>>, <<Tenths(4), NoNumber>>, <<Tenths(120), Tenths(5000)>>,
   <<NoNumber, Tenths(5000)>>, <<[isNumber |-> FALSE, tenths |-> 120], NoNumber>>}

\* getBestMove({fen, timeoutMs, depth, movetime, multiPv}) is called
CallGetBestMove ==
  /\ call.outcome = "not_called"
  /\ \E configured \in BOOLEAN, fen \in BOOLEAN, timeoutMs \in TimeoutInputs,
        search \in SearchInputs,
        multiPv \in {1, 3}, spawned \in {"throws", "fails", "runs"}, stdin \in BOOLEAN :
       call' = GetBestMoveSt(configured, fen, timeoutMs, search[1], search[2], multiPv,
                             spawned, stdin)
  /\ UNCHANGED <<ServerVars, probe>>

\* the subprocess prints a line
EngineWrites ==
  /\ call.proc = "running" /\ ~call.ended
  /\ Len(call.pipe) < MaxPipe
  /\ \E line \in EngineLines : call' = [call EXCEPT !.pipe = Append(@, line)]
  /\ UNCHANGED <<ServerVars, probe>>

\* engine.stderr.on('data')
EngineStderr ==
  /\ call.proc = "running"
  /\ call.stderrBuffer < MaxStderr
  /\ call' = [call EXCEPT !.stderrBuffer = @ + 1]
  /\ UNCHANGED <<ServerVars, probe>>

\* rl.on('line'): the next line is read; a closed interface drops it
ReadLine ==
  /\ call.pipe # <<>>
  /\ LET line == Head(call.pipe)
         rest == [call EXCEPT !.pipe = Tail(@),
                              !.late = IF call.timer = "fired" /\ line = "bestmove"
                                         THEN @ \cup {"bestmove"} ELSE @]
     IN call' = IF rest.listening THEN HandleLine(rest, line) ELSE rest
  /\ UNCHANGED <<ServerVars, probe>>

\* rl.on('close'): the output stream ends after its last line
StdoutEnds ==
  /\ call.proc # "none" /\ ~call.ended
  /\ call.pipe = <<>>
  /\ LET ended == [call EXCEPT !.ended = TRUE] IN
     call' = IF ended.listening THEN FailOnce(ended, "stream_closed") ELSE ended
  /\ UNCHANGED <<ServerVars, probe>>

\* the subprocess ends, by itself or on the quit command or the signal
ProcessExits ==
  /\ call.proc = "running"
  /\ call' = [call EXCEPT !.proc = "exited", !.exitPending = TRUE]
  /\ UNCHANGED <<ServerVars, probe>>

\* engine.on('exit')
ExitEvent ==
  /\ call.exitPending
  /\ call' = OnExit([call EXCEPT !.exitPending = FALSE,
                                 !.late = IF call.timer = "fired"
                                            THEN @ \cup {"exit"} ELSE @])
  /\ UNCHANGED <<ServerVars, probe>>

\* engine.on('error')
ErrorEvent ==
  /\ call.errorPending
  /\ call' = FailOnce([call EXCEPT !.errorPending = FALSE], "process_error")
  /\ UNCHANGED <<ServerVars, probe>>

\* engine.stdin 'error' / 'close'
StdinFaults ==
  /\ call.writable
  /\ call' = [call EXCEPT !.writable = FALSE]
  /\ UNCHANGED <<ServerVars, probe>>

\* the timer armed by setTimeout fires
TimerFires ==
  /\ call.timer = "armed"
  /\ call' = TimerCallback([call EXCEPT !.timer = "fired"])
  /\ UNCHANGED <<ServerVars, probe>>

NextEngine ==
  \/ CallGetBestMove
  \/ EngineWrites
  \/ EngineStderr
  \/ ReadLine
  \/ StdoutEnds
  \/ ProcessExits
  \/ ExitEvent
  \/ ErrorEvent
  \/ StdinFaults
  \/ TimerFires

SpecEngine == Init /\ [][NextEngine]_vars

\* --------------------------------------------- scores of evaluations
\* mate distances near zero and around the largest the engine reports
NearMate == 5
FarMate == 102
MateDistances ==
  {n \in -FarMate..FarMate : n # 0 /\ (Abs(n) <= NearMate \/ Abs(n) >= FarMate - 4)}

\* centipawn values an engine reports, from level to decisive
CpValues == {-15000, -3000, -250, -1, 0, 1, 250, 3000, 15000}

Evaluations ==
  {[type |-> "mate", value |-> n] : n \in MateDistances \cup {0}}
    \cup {[type |-> "cp", value |-> c] : c \in CpValues}
    \cup {NoEvaluation, [type |-> "lowerbound", value |-> 1]}

InitScore ==
  /\ InitServer
  /\ call = NoCall
  /\ probe \in {[op |-> "evaluations", x |-> x, y |-> y] : x, y \in Evaluations}

\* evaluationToCentipawns is applied to both evaluations
ScoreBoth ==
  /\ probe.op = "evaluations"
  /\ probe' = [op |-> "scores", x |-> probe.x, y |-> probe.y,
               sx |-> EvaluationToCentipawns(probe.x),
               sy |-> EvaluationToCentipawns(probe.y)]
  /\ UNCHANGED <<ServerVars, call>>

SpecScore == InitScore /\ [][ScoreBoth]_vars

\* ------------------------------------------------- the bestmove line
Moves == {"e2e4", "e7e5", "a7a8q", "(none)"}
MaxTokens == 3
RECURSIVE TokenLines(_)
TokenLines(n) ==
  IF n = 0 THEN {<<>>}
  ELSE LET shorter == TokenLines(n - 1) IN
       shorter \cup {Append(l, t) : l \in {k \in shorter : Len(k) = n - 1},
                                    t \in Moves \cup {"ponder"}}

\* the lines that start with bestmove, split at white space
BestmoveLines == {<<"bestmove">> \o l : l \in TokenLines(MaxTokens)}

InitBestmove ==
  /\ InitServer
  /\ call = NoCall
  /\ probe \in {[op |-> "line", parts |-> parts] : parts \in BestmoveLines}

\* handleLine reads the bestmove line
ReadBestmove ==
  /\ probe.op = "line"
  /\ probe' = [op |-> "result", parts |-> probe.parts, result |-> ParseBestmove(probe.parts)]
  /\ UNCHANGED <<ServerVars, call>>

SpecBestmove == InitBestmove /\ [][ReadBestmove]_vars

\* ------------------------------------- the lines of a multi-line search
MaxInfo == 3
InfoLines ==
  [tagged : {TRUE}, multipv : {1, 2}, depth : BOOLEAN, score : BOOLEAN, pv : BOOLEAN]
    \cup [tagged : {FALSE}, multipv : {0}, depth : BOOLEAN, score : BOOLEAN, pv : BOOLEAN]

MultiPvInputs ==
  {[isNumber |-> FALSE, value |-> 0], [isNumber |-> TRUE, value |-> 0],
   [isNumber |-> TRUE, value |-> 1], [isNumber |-> TRUE, value |-> 11]}

\* the search is running: stage is 'go' and nothing was read yet
InitSearch ==
  /\ InitServer
  /\ call = NoCall
  /\ probe \in {[op |-> "go", multiPv |-> m, rawOutput |-> <<>>, multiPvLines |-> <<>>,
                 lines |-> <<>>] : m \in MultiPvInputs}

\* handleLine reads an info line
ReadInfo ==
  /\ probe.op = "go"
  /\ Len(probe.rawOutput) < MaxInfo
  /\ \E line \in InfoLines :
       probe' = [probe EXCEPT
                   !.rawOutput = Append(@, line),
                   !.multiPvLines = ProcessInfoLine(@, line, Len(probe.rawOutput) + 1)]
  /\ UNCHANGED <<ServerVars, call>>

\* handleLine reads the bestmove line and builds the result
ReadBestmoveOfSearch ==
  /\ probe.op = "go"
  /\ probe' = [probe EXCEPT
                 !.op = "result",
                 !.lines = BuildResultLines(probe.multiPvLines, probe.rawOutput,
                                            ClampedMultiPv(probe.multiPv))]
  /\ UNCHANGED <<ServerVars, call>>

NextSearch ==
  \/ ReadInfo
  \/ ReadBestmoveOfSearch

SpecSearch == InitSearch /\ [][NextSearch]_vars

\* ------------------------------------------------- the analysis loop
MaxPlies == 2
DefaultThresholds == [inaccuracy |-> 50, mistake |-> 100, blunder |-> 250]
ThresholdInputs == {DefaultThresholds, [inaccuracy |-> 100, mistake |-> 250, blunder |-> 300]}

EngineResults ==
  {EngineFailed, EngineResult(NoEvaluation)}
    \cup {EngineResult([type |-> "cp", value |-> c]) : c \in {-250, -50, 0, 50, 100, 250}}

\* analyzeGame has loaded the game: analysisLimit plies are to be analysed
InitAnalysis ==
  /\ InitServer
  /\ call = NoCall
  /\ probe \in {[op |-> "analyzeGame", analysisLimit |-> n, thresholds |-> t,
                 idx |-> 0, at |-> "pre-move", preMoveResult |-> EngineFailed,
                 calls |-> <<>>, evaluationGraph |-> <<>>, annotations |-> <<>>,
                 errors |-> <<>>] : n \in 0..MaxPlies, t \in ThresholdInputs}

Analysing(at) == probe.op = "analyzeGame" /\ probe.at = at

PreMove ==
  /\ Analysing("pre-move") /\ probe.idx < probe.analysisLimit
  /\ \E result \in EngineResults : probe' = PreMoveSt(probe, result)
  /\ UNCHANGED <<ServerVars, call>>

ApplyMove ==
  /\ Analysing("apply-move")
  /\ \E applied \in BOOLEAN : probe' = ApplyMoveSt(probe, applied)
  /\ UNCHANGED <<ServerVars, call>>

PostMove ==
  /\ Analysing("post-move")
  /\ \E result \in EngineResults : probe' = PostMoveSt(probe, result)
  /\ UNCHANGED <<ServerVars, call>>

\* the loop ends at idx = analysisLimit
ReturnAnalysis ==
  /\ Analysing("pre-move") /\ probe.idx >= probe.analysisLimit
  /\ probe' = [probe EXCEPT !.at = "returned"]
  /\ UNCHANGED <<ServerVars, call>>

NextAnalysis ==
  \/ PreMove
  \/ ApplyMove
  \/ PostMove
  \/ ReturnAnalysis

SpecAnalysis == InitAnalysis /\ [][NextAnalysis]_vars

\* ------------------------------ the analysis loop and its subprocesses
\* analyzeGame: requestedMultiPv and clampedMultiPv; multiPv is undefined or
\* an integer
AnalysisMultiPv(multiPv) ==
  LET requestedMultiPv == IF multiPv.isNumber THEN multiPv.value ELSE 3
  IN Min(Max(IF requestedMultiPv # 0 THEN requestedMultiPv ELSE 3, 1), 5)

\* the line count getBestMove works with when it is passed multiPv
LinesOf(multiPv) == ClampedMultiPv([isNumber |-> TRUE, value |-> multiPv])

\* analyzeGame reaches `await getBestMove({..., multiPv})`: the call is
\* pending; running is 1 when the call spawned its subprocess
StartQuerySt(a, context, multiPv, spawned) ==
  [a EXCEPT !.pending = TRUE,
            !.running = IF spawned THEN 1 ELSE 0,
            !.queries = Append(@, [ply |-> a.idx + 1, context |-> context,
                                   lines |-> LinesOf(multiPv)])]

\* the awaited call has settled: its subprocess has exited (gone), or was
\* signalled and is still to exit
SettleQuerySt(a, gone) ==
  [a EXCEPT !.pending = FALSE,
            !.running = 0,
            !.dying = IF a.running = 1 /\ ~gone THEN @ + 1 ELSE @]

AnalysisMultiPvInputs ==
  {Undefined, [isNumber |-> TRUE, value |-> -1], [isNumber |-> TRUE, value |-> 2],
   [isNumber |-> TRUE, value |-> 7]}

RunResults == {EngineFailed, EngineResult([type |-> "cp", value |-> 0])}

InitRun ==
  /\ InitServer
  /\ call = NoCall
  /\ probe \in {[op |-> "analyzeGame", analysisLimit |-> n, thresholds |-> DefaultThresholds,
                 idx |-> 0, at |-> "pre-move", preMoveResult |-> EngineFailed,
                 calls |-> <<>>, evaluationGraph |-> <<>>, annotations |-> <<>>,
                 errors |-> <<>>, multiPv |-> m, pending |-> FALSE, running |-> 0,
                 dying |-> 0, queries |-> <<>>] :
                n \in 0..MaxPlies, m \in AnalysisMultiPvInputs}

StartPreMove ==
  /\ Analysing("pre-move") /\ probe.idx < probe.analysisLimit
  /\ ~probe.pending
  /\ \E spawned \in BOOLEAN :
       probe' = StartQuerySt(probe, "pre-move", AnalysisMultiPv(probe.multiPv), spawned)
  /\ UNCHANGED <<ServerVars, call>>

SettlePreMove ==
  /\ Analysing("pre-move") /\ probe.pending
  /\ \E result \in RunResults, gone \in BOOLEAN :
       /\ probe.running = 0 => result = EngineFailed
       /\ probe' = SettleQuerySt(PreMoveSt(probe, result), gone)
  /\ UNCHANGED <<ServerVars, call>>

StartPostMove ==
  /\ Analysing("post-move")
  /\ ~probe.pending
  /\ \E spawned \in BOOLEAN : probe' = StartQuerySt(probe, "post-move", 1, spawned)
  /\ UNCHANGED <<ServerVars, call>>

SettlePostMove ==
  /\ Analysing("post-move") /\ probe.pending
  /\ \E result \in RunResults, gone \in BOOLEAN :
       /\ probe.running = 0 => result = EngineFailed
       /\ probe' = SettleQuerySt(PostMoveSt(probe, result), gone)
  /\ UNCHANGED <<ServerVars, call>>

\* a signalled subprocess of an earlier call exits
SubprocessExits ==
  /\ probe.op = "analyzeGame"
  /\ probe.dying > 0
  /\ probe' = [probe EXCEPT !.dying = @ - 1]
  /\ UNCHANGED <<ServerVars, call>>

ReturnRun ==
  /\ ~probe.pending
  /\ ReturnAnalysis

NextRun ==
  \/ StartPreMove
  \/ SettlePreMove
  \/ ApplyMove
  \/ StartPostMove
  \/ SettlePostMove
  \/ SubprocessExits
  \/ ReturnRun

SpecRun == InitRun /\ [][NextRun]_vars

TypeOK ==
  /\ call.timer \in {"none", "armed", "fired", "cleared"}
  /\ call.proc \in {"none", "running", "exited", "failed"}
  /\ unanswered \subseteq DOMAIN conns
  /\ \A e \in evicted : e.pid \in PlayerIds \ DOMAIN PLAYERS
  /\ \A p \in PlayerIds : idleLong[p] => p \in DOMAIN PLAYERS /\ PLAYERS[p].createdLongAgo
  /\ \A p \in DOMAIN PLAYERS : PLAYERS[p].lastPingAt \in {None, Earlier}
  /\ DOMAIN PLAYERS \subseteq PlayerIds
  /\ DOMAIN LOBBIES \subseteq GameIds
  /\ \A g \in DOMAIN LOBBIES : LOBBIES[g].status \in {"waiting", "active"}
  /\ created \in 0..MaxLobbies

\* ---------------------------------------------------------- claims

\* C1: every lobby in the registry with an empty guest seat is waiting, and
\* every active lobby has both seats filled.
C1_LobbySeatsMatchStatus ==
  \A g \in DOMAIN LOBBIES :
    /\ LOBBIES[g].guest = None => LOBBIES[g].status = "waiting"
    /\ LOBBIES[g].status = "active" => LOBBIES[g].host # None /\ LOBBIES[g].guest # None

\* an active lobby with a move played and a participant whose connection is gone
C1_Witness ==
  \E g \in DOMAIN LOBBIES :
    /\ LOBBIES[g].status = "active"
    /\ Len(LOBBIES[g].moves) > 0
    /\ PLAYERS[LOBBIES[g].host].ws = None

\* the position or move list registered under g differs once the handler that
\* produced st has run
PositionChanged(st, g) ==
  \/ g \notin DOMAIN st.L
  \/ st.L[g].chess # LOBBIES[g].chess
  \/ st.L[g].moves # LOBBIES[g].moves

\* the three conditions under which a move message may change lobby g
MoveAllowed(c, payload, g) ==
  LET p == GetPlayer(Cur, c) IN
  /\ p # None
  /\ p \in {LOBBIES[g].host, LOBBIES[g].guest}
  /\ LOBBIES[g].status = "active"
  /\ PLAYERS[p].color = TurnColor(LOBBIES[g].chess)
  /\ ChessMoveUci(LOBBIES[g].chess, payload.uci) # NoMove

\* C2: in every reachable state, whatever move message arrives on whatever
\* connection, handling it changes a lobby's position or move list only if the
\* submitter is seated in that lobby, the lobby is active with the submitter's
\* side to move, and the rules engine accepts the move.
C2_MoveOnlyBySeatedSideToMove ==
  \A c \in OpenConns, payload \in MovePayloads :
    \A g \in DOMAIN LOBBIES :
      PositionChanged(HandleMoveSt(Cur, c, payload), g) => MoveAllowed(c, payload, g)

\* C3: a participant of an active lobby that lost its connection and sent
\* hello with its id on a new connection before the grace timer fired keeps its
\* seat (gameId and color), and its lobby is not finalized by its disconnect
\* timeout while that new connection stays open.
C3_ReattachSuppressesTimeout ==
  \A p \in DOMAIN PLAYERS :
    reattached[p].conn # None =>
      /\ \A i \in DOMAIN fin :
           ~(/\ fin[i].uid = reattached[p].uid
             /\ fin[i].reason = "disconnect_timeout"
             /\ fin[i].by = p)
      /\ \A g \in DOMAIN LOBBIES :
           LOBBIES[g].uid = reattached[p].uid =>
             /\ PLAYERS[p].gameId = g
             /\ PLAYERS[p].color \in {"white", "black"}

\* the handler that produced st changed nothing and answered connection c with
\* exactly one error of the given code
Rejected(st, c, code) ==
  /\ st.P = PLAYERS
  /\ st.L = LOBBIES
  /\ st.C = conns
  /\ st.fin = <<>>
  /\ st.out = <<[to |-> c] @@ ErrorMsg(code)>>

\* C4: once an active lobby has been finalized, a move message or a resign message
\* that names its id and comes from one of its two former participants is
\* answered with the error GAME_NOT_FOUND and changes no state.
C4_CompletedLobbyNotFound ==
  \A i \in DOMAIN fin : \A c \in OpenConns :
    LET p == GetPlayer(Cur, c) IN
    fin[i].from = "active" /\ p # None /\ p \in {fin[i].host, fin[i].guest} =>
      /\ \A u \in UciInputs :
           Rejected(HandleMoveSt(Cur, c, [gameId |-> fin[i].gameId, playerId |-> p,
                                           uci |-> u, san |-> Absent]),
                    c, "GAME_NOT_FOUND")
      /\ Rejected(HandleResignSt(Cur, c, fin[i].gameId), c, "GAME_NOT_FOUND")

\* the lobby object that the finalization recorded as e left behind
CompletedLobby(e) ==
  [uid |-> e.uid, gameId |-> e.gameId, host |-> None, guest |-> None,
   chess |-> StartPosition, status |-> e.status, moves |-> <<>>,
   result |-> e.result, resultReason |-> e.reason]

\* C5: finalizing a lobby that is already completed changes nothing and sends
\* nothing, and whatever the interleaving of terminal moves, resignations,
\* leaves and grace timers, no lobby is finalized (result and reason set,
\* game_over broadcast) more than once.
C5_FinalizeIdempotent ==
  /\ \A u \in DOMAIN finalized : finalized[u] <= 1
  /\ Len(fin) <= 1
  /\ \A i \in DOMAIN fin :
       \A result \in {"1-0", "0-1", "1/2-1/2"},
          reason \in {"checkmate", "resign", "left", "disconnect_timeout"},
          by \in DOMAIN PLAYERS :
         FinalizeGame(Cur, CompletedLobby(fin[i]), result, reason, by) = Cur

\* every lobby ever created has been finalized, the last one just now
C5_Witness ==
  /\ \A u \in DOMAIN finalized : finalized[u] = 1
  /\ fin # <<>>

\* C6: right after a lobby is finalized, each of its participants has no
\* gameId, no color and no pending grace timer, and the lobby id is not in
\* the registry.
C6_FinalizeReleasesParticipants ==
  \A i \in DOMAIN fin :
    /\ \A p \in {fin[i].host, fin[i].guest} \ {None} :
         /\ PLAYERS[p].gameId = None
         /\ PLAYERS[p].color = Absent
         /\ ~PLAYERS[p].disconnectTimer
    /\ fin[i].gameId \notin DOMAIN LOBBIES

\* a resigned game whose other participant had lost its connection, so that
\* its grace timer was pending when the lobby was finalized
C6_Witness ==
  \E i \in DOMAIN fin :
    /\ fin[i].reason = "resign"
    /\ \E p \in {fin[i].host, fin[i].guest} \ {None, fin[i].by} : PLAYERS[p].ws = None

\* handleLeave for participant p, had p still been attached, on a socket of
\* its own
AsIfLeaving(p) ==
  LET c == Len(conns) + 1 IN
  HandleLeaveSt([Cur EXCEPT !.C = Append(conns, [state |-> "open", pid |-> p]),
                            !.P[p].ws = c, !.P[p].disconnectTimer = FALSE], c)

\* C7: when the grace timer of a participant that holds a seat fires: in an
\* active lobby the lobby is finalized as by that participant's leave (the
\* opposing side wins, same participants released, same registry), with
\* reason disconnect_timeout; in a waiting lobby the participant is removed
\* from its seat and the lobby is deleted without a result.  A participant
\* that is attached has no pending timer, and the timer callback run for it
\* changes no lobby and sends nothing.
C7_GraceTimerExpiry ==
  \A p \in DOMAIN PLAYERS :
    LET st == DisconnectTimeoutSt(Cur, p) IN
    /\ PLAYERS[p].ws # None =>
         /\ ~PLAYERS[p].disconnectTimer
         /\ st.L = LOBBIES /\ st.fin = <<>> /\ st.out = <<>>
         /\ st.P = PLAYERS
    /\ PLAYERS[p].disconnectTimer =>
         \A g \in DOMAIN LOBBIES :
           SeatedIn(PLAYERS, LOBBIES, p, g) =>
             IF LOBBIES[g].status = "active"
               THEN /\ g \notin DOMAIN st.L
                    /\ Len(st.fin) = 1
                    /\ st.fin[1].uid = LOBBIES[g].uid
                    /\ st.fin[1].reason = "disconnect_timeout"
                    /\ st.fin[1].result =
                         (IF PLAYERS[p].color = "white" THEN "0-1" ELSE "1-0")
                    /\ st.L = AsIfLeaving(p).L
                    /\ st.P = [AsIfLeaving(p).P EXCEPT ![p].ws = None]
                    /\ [st.fin[1] EXCEPT !.reason = "left"] = AsIfLeaving(p).fin[1]
               ELSE /\ g \notin DOMAIN st.L
                    /\ st.fin = <<>>
                    /\ st.P[p].gameId = None
                    /\ st.P[p].color = Absent

\* a grace timer has just finalized an active lobby
C7_Witness ==
  \E i \in DOMAIN fin : fin[i].reason = "disconnect_timeout" /\ fin[i].from = "active"

\* C8: a lobby is finalized (marked completed, result set, game_over sent)
\* only when it is active, never while it is still waiting.
C8_CompletedOnlyFromActive ==
  \A i \in DOMAIN fin : fin[i].from = "active"

\* C9: whatever identifier generateGameId draws, a create message leaves
\* every registered lobby registered and unchanged; and no participant's
\* gameId resolves to a lobby in which it holds no seat.
C9_CreateNeverCollides ==
  /\ \A c \in OpenConns, pref \in {"white", "black", Absent},
        coin \in {"white", "black"}, g \in GameIds :
       LET st == HandleCreateSt(Cur, c, pref, coin, g, created + 1) IN
       \A h \in DOMAIN LOBBIES : h \in DOMAIN st.L /\ st.L[h] = LOBBIES[h]
  /\ \A p \in DOMAIN PLAYERS :
       PLAYERS[p].gameId \in DOMAIN LOBBIES =>
         p \in {LOBBIES[PLAYERS[p].gameId].host, LOBBIES[PLAYERS[p].gameId].guest}

\* the one answer handleJoin owes an identified participant that names a
\* lobby id it cannot be seated in
JoinRefusal(p, g) ==
  IF PLAYERS[p].gameId # None THEN "ALREADY_IN_GAME"
  ELSE IF g \notin DOMAIN LOBBIES THEN "GAME_NOT_FOUND"
  ELSE "LOBBY_FULL"

\* C10: a join message of an identified participant that names a lobby id
\* seats the joiner as guest exactly when the lobby exists, is waiting, has
\* an empty guest seat and the joiner has no lobby; otherwise it is answered
\* ALREADY_IN_GAME, GAME_NOT_FOUND or LOBBY_FULL and changes nothing.  In
\* every reachable state host and guest of a lobby are different
\* participants.
C10_JoinOnlyIntoWaitingLobby ==
  /\ \A c \in OpenConns, g \in GameIds :
       LET p == GetPlayer(Cur, c)
           st == HandleJoinSt(Cur, c, g)
       IN p # None =>
            IF /\ g \in DOMAIN LOBBIES
               /\ LOBBIES[g].status = "waiting"
               /\ LOBBIES[g].guest = None
               /\ PLAYERS[p].gameId = None
              THEN /\ st.L[g].guest = p
                   /\ st.L[g].host = LOBBIES[g].host
                   /\ st.P[p].gameId = g
                   /\ \A h \in DOMAIN LOBBIES \ {g} : st.L[h] = LOBBIES[h]
              ELSE Rejected(st, c, JoinRefusal(p, g))
  /\ \A g \in DOMAIN LOBBIES : LOBBIES[g].host # LOBBIES[g].guest

\* an active lobby of two participants, and a third participant with no lobby
\* whose join of that lobby is refused with LOBBY_FULL
C10_Witness ==
  \E g \in DOMAIN LOBBIES, c \in OpenConns :
    LET p == GetPlayer(Cur, c) IN
    /\ LOBBIES[g].status = "active"
    /\ p # None
    /\ p \notin {LOBBIES[g].host, LOBBIES[g].guest}
    /\ Rejected(HandleJoinSt(Cur, c, g), c, "LOBBY_FULL")

\* the start message owed to participant q of the lobby registered under g in
\* st: the starting position, white to move, who plays which side, q's side
StartMessage(st, g, q) ==
  LET host == st.L[g].host
      guest == st.L[g].guest
  IN [to |-> st.P[q].ws, type |-> "start", gameId |-> g,
      fen |-> [turn |-> "w", n |-> 0, over |-> "none"], turn |-> "white",
      white |-> IF st.P[host].color = "white" THEN host ELSE guest,
      black |-> IF st.P[host].color = "white" THEN guest ELSE host,
      color |-> st.P[q].color]

\* participant q of state st has an open socket to be told on
Reachable(st, q) == st.P[q].ws # None /\ st.C[st.P[q].ws].state = "open"

\* C11: a join that seats the joiner leaves the lobby active with the
\* starting position, white to move and an empty move list, host and guest
\* on opposite sides, and the messages the handler sends are exactly the
\* start message to the host and then to the guest (each on its open socket),
\* carrying that position, the turn and both sides' participant ids.
C11_JoinStartsGame ==
  \A c \in OpenConns, g \in DOMAIN LOBBIES :
    LET p == GetPlayer(Cur, c)
        st == HandleJoinSt(Cur, c, g)
    IN (p # None /\ LOBBIES[g].guest # p /\ st.L[g].guest = p) =>
         /\ st.L[g].status = "active"
         /\ st.L[g].chess = [turn |-> "w", n |-> 0, over |-> "none"]
         /\ st.L[g].moves = <<>>
         /\ {st.P[st.L[g].host].color, st.P[p].color} = {"white", "black"}
         /\ st.out = SelectSeq(<<StartMessage(st, g, st.L[g].host), StartMessage(st, g, p)>>,
                                LAMBDA m : m.to # None /\ conns[m.to].state = "open")

\* a game just started: nothing played yet, both participants attached
C11_Witness ==
  \E g \in DOMAIN LOBBIES :
    /\ LOBBIES[g].status = "active"
    /\ LOBBIES[g].moves = <<>>
    /\ Reachable(Cur, LOBBIES[g].host)
    /\ Reachable(Cur, LOBBIES[g].guest)
    /\ PLAYERS[LOBBIES[g].host].ws # PLAYERS[LOBBIES[g].guest].ws

\* C12: an accepted move that leaves a terminal position finalizes the
\* lobby in the same handler (checkmate: 1-0 if white moved, 0-1 if black
\* moved, reason checkmate; stalemate, threefold repetition, insufficient
\* material or another draw: 1/2-1/2); an accepted move that is not terminal
\* leaves the lobby active and registered, and finalizes nothing.
C12_TerminalMoveFinalizes ==
  \A c \in OpenConns, payload \in MovePayloads :
    \A g \in DOMAIN LOBBIES :
      LET st == HandleMoveSt(Cur, c, payload)
          side == TurnColor(LOBBIES[g].chess)
          over == ChessMoveUci(LOBBIES[g].chess, payload.uci).over
      IN PositionChanged(st, g) =>
           /\ PLAYERS[GetPlayer(Cur, c)].color = side
           /\ IF over = "none"
                THEN /\ g \in DOMAIN st.L
                     /\ st.L[g].status = "active"
                     /\ st.L[g].uid = LOBBIES[g].uid
                     /\ st.fin = <<>>
                ELSE /\ g \notin DOMAIN st.L
                     /\ Len(st.fin) = 1
                     /\ st.fin[1].uid = LOBBIES[g].uid
                     /\ st.fin[1].from = "active"
                     /\ st.fin[1].reason = over
                     /\ st.fin[1].result =
                          (IF over # "checkmate" THEN "1/2-1/2"
                           ELSE IF side = "white" THEN "1-0" ELSE "0-1")

\* black has just given checkmate
C12_Witness ==
  \E i \in DOMAIN fin : fin[i].reason = "checkmate" /\ fin[i].result = "0-1"

\* the handler that produced st finalized the lobby registered under g, and
\* nothing else, with the side opposing participant p as winner
OpponentWins(st, g, p, reason) ==
  /\ g \notin DOMAIN st.L
  /\ Len(st.fin) = 1
  /\ st.fin[1].uid = LOBBIES[g].uid
  /\ st.fin[1].reason = reason
  /\ PLAYERS[p].color \in {"white", "black"}
  /\ st.fin[1].result = (IF PLAYERS[p].color = "white" THEN "0-1" ELSE "1-0")
  /\ \A q \in {LOBBIES[g].host, LOBBIES[g].guest} \ {None, p} :
       PLAYERS[q].color = GetOpponentColor(PLAYERS[p].color)

\* C13: a resign message of a participant seated in the lobby it names, and
\* a leave message of a participant seated in an active lobby, finalize that
\* lobby in the same handler with the opposing side as winner (0-1 when the
\* actor is white, 1-0 when it is black) and reason resign or left, whichever
\* side is to move.
C13_ResignAndLeaveGiveOpponentWin ==
  \A c \in OpenConns, g \in DOMAIN LOBBIES :
    LET p == GetPlayer(Cur, c) IN
    (p # None /\ SeatedIn(PLAYERS, LOBBIES, p, g)) =>
      /\ OpponentWins(HandleResignSt(Cur, c, g), g, p, "resign")
      /\ LOBBIES[g].status = "active" => OpponentWins(HandleLeaveSt(Cur, c), g, p, "left")

\* a participant of an active lobby whose opponent is to move, on an open
\* socket, whose resignation gives black the win
C13_Witness ==
  \E c \in OpenConns, g \in DOMAIN LOBBIES :
    LET p == GetPlayer(Cur, c) IN
    /\ p # None
    /\ SeatedIn(PLAYERS, LOBBIES, p, g)
    /\ LOBBIES[g].status = "active"
    /\ PLAYERS[p].color = "white"
    /\ TurnColor(LOBBIES[g].chess) = "black"
    /\ HandleResignSt(Cur, c, g).fin[1].result = "0-1"

\* C14: a legal move sent by the seated participant whose turn it is has
\* the same effect whether the message carries it as uci or only as san: the
\* same position, move list, finalization and messages.
C14_SanAppliedLikeUci ==
  \A c \in OpenConns, g \in DOMAIN LOBBIES, m \in MoveTable :
    LET p == GetPlayer(Cur, c)
        viaUci == HandleMoveSt(Cur, c, [gameId |-> g, playerId |-> p,
                                        uci |-> m.uci, san |-> Absent])
        viaSan == HandleMoveSt(Cur, c, [gameId |-> g, playerId |-> p,
                                        uci |-> Absent, san |-> m.san])
    IN (p # None /\ PositionChanged(viaUci, g)) =>
         /\ viaSan.L = viaUci.L
         /\ viaSan.P = viaUci.P
         /\ viaSan.fin = viaUci.fin
         /\ viaSan.out = viaUci.out

\* the handler that produced st sent an error reply
ErrorReplied(st) == \E i \in DOMAIN st.out : st.out[i].type = "error"

\* the handler that produced st left participants and lobbies as they were
\* and finalized nothing
NoStateChange(st) == st.P = PLAYERS /\ st.L = LOBBIES /\ st.fin = <<>>

\* C15: whenever create, join, move, resign or leave answers with an error
\* reply, the set of lobbies, every lobby's status, seats, position and move
\* list and every participant record are the same after the message as
\* before it.
C15_ErrorReplyChangesNothing ==
  \A c \in OpenConns :
    /\ \A pref \in {"white", "black", Absent}, coin \in {"white", "black"}, g \in GameIds :
         LET st == HandleCreateSt(Cur, c, pref, coin, g, created + 1) IN
         ErrorReplied(st) => NoStateChange(st)
    /\ \A g \in GameIds \cup {None} :
         /\ ErrorReplied(HandleJoinSt(Cur, c, g)) => NoStateChange(HandleJoinSt(Cur, c, g))
         /\ ErrorReplied(HandleResignSt(Cur, c, g)) => NoStateChange(HandleResignSt(Cur, c, g))
    /\ \A payload \in MovePayloads :
         ErrorReplied(HandleMoveSt(Cur, c, payload)) => NoStateChange(HandleMoveSt(Cur, c, payload))
    /\ ErrorReplied(HandleLeaveSt(Cur, c)) => NoStateChange(HandleLeaveSt(Cur, c))

\* an active lobby in which the participant on some socket is refused both a
\* move out of turn and an illegal move, and refused a second lobby
C15_Witness ==
  \E c \in OpenConns, g \in DOMAIN LOBBIES, d \in OpenConns :
    LET p == GetPlayer(Cur, c)
        q == GetPlayer(Cur, d)
    IN /\ p # None /\ q # None
       /\ LOBBIES[g].status = "active"
       /\ HandleMoveSt(Cur, c, [gameId |-> g, playerId |-> p, uci |-> "e2e4", san |-> Absent]).out
            = <<[to |-> c] @@ ErrorMsg("WRONG_TURN")>>
       /\ HandleMoveSt(Cur, d, [gameId |-> g, playerId |-> q, uci |-> "a1a1", san |-> Absent]).out
            = <<[to |-> d] @@ ErrorMsg("ILLEGAL_MOVE")>>
       /\ HandleCreateSt(Cur, c, "white", "white", g, created + 1).out
            = <<[to |-> c] @@ ErrorMsg("ALREADY_IN_GAME")>>

\* C16: a frame that is not parseable JSON, or whose type is none of hello,
\* create, join, move, resign, leave, pong, is answered with exactly one
\* error reply on the socket it came from and changes no participant and no
\* lobby, whether or not that socket is identified.
C16_MalformedFrameRejected ==
  \A c \in OpenConns, message \in MalformedMessages :
    LET st == HandleMessageSt(Cur, c, message, NoDraw) IN
    Rejected(st, c, IF message.parses THEN "UNKNOWN_TYPE" ELSE "INVALID_JSON")

\* two open sockets, one identified and seated in an active lobby, one not
\* identified
C16_Witness ==
  \E c \in OpenConns, d \in OpenConns :
    /\ GetPlayer(Cur, c) # None
    /\ PLAYERS[GetPlayer(Cur, c)].gameId \in DOMAIN LOBBIES
    /\ LOBBIES[PLAYERS[GetPlayer(Cur, c)].gameId].status = "active"
    /\ GetPlayer(Cur, d) = None

\* C17: at each liveness sweep, every open connection bound to a registered
\* participant that was pinged at the previous sweep with no pong of its
\* participant handled since is force-closed and not pinged, and every other one
\* stays open, is sent a ping and has its participant marked as awaiting a pong.
C17_SweepPingsOrCloses ==
  LET st == PingTimerSt(Cur) IN
  \A c \in OpenConns :
    GetPlayer(Cur, c) # None =>
      IF c \in unanswered
        THEN st.C[c].state = "closing" /\ c \notin PingsOf(st)
        ELSE /\ st.C[c].state = "open"
             /\ c \in PingsOf(st)
             /\ GetPlayer(st, c) # None => st.P[GetPlayer(st, c)].awaitingPong

\* C18: the cleanup of a sweep deletes no participant record unless that
\* participant has been without connection and without lobby for longer than
\* the retention window; every other record is still registered after the
\* sweep, so that a hello naming its id reattaches to it.
C18_CleanupKeepsRecentlyIdle ==
  LET st == PingTimerSt(Cur) IN
  \A p \in DOMAIN PLAYERS : ~idleLong[p] => p \in DOMAIN st.P

\* the outcomes of a call that went through the promise
SessionOutcomes ==
  {"bestmove", "timeout", "write_failure", "process_error", "premature_exit",
   "stream_closed"}

\* C19: a getBestMove call never spawns more than one subprocess, and once it
\* has settled by a bestmove, the timeout, a write failure, a process error, a
\* premature exit or the close of the output stream, it has spawned exactly
\* one; after any settlement no subprocess runs without having been signalled
\* to terminate and no timer is armed.
C19_SettledCallLeavesNothing ==
  /\ call.spawns <= 1
  /\ call.outcome \in SessionOutcomes => call.spawns = 1
  /\ call.outcome \notin {"not_called", "pending"} =>
       /\ call.proc = "running" => call.signalled
       /\ call.timer # "armed"

\* a call settled by a bestmove: its subprocess still runs, signalled
C19_Witness ==
  /\ call.outcome = "bestmove"
  /\ call.proc = "running" /\ call.signalled
  /\ call.timer = "cleared"

\* C20: a call arms at most one timer, and one once its session starts, of the
\* caller's timeoutMs when that is a positive number and of 6000 ms otherwise;
\* once the timer has fired the call has failed with the timeout and its
\* subprocess is signalled or gone, whatever line or exit is handled later;
\* a call settled by a bestmove has its timer cancelled.
C20_SingleTimerDecides ==
  /\ call.timers <= 1
  /\ call.outcome \in SessionOutcomes \cup {"pending"} =>
       /\ call.timers = 1
       /\ IF call.timeoutMs.isNumber /\ call.timeoutMs.value > 0
            THEN call.localTimeout = call.timeoutMs.value
            ELSE call.localTimeout = 6000
  /\ call.timer = "fired" =>
       /\ call.outcome = "timeout"
       /\ call.proc = "running" => call.signalled
  /\ call.outcome = "bestmove" => call.timer = "cleared"

\* the timer fired, and a bestmove line and the exit came afterwards
C20_Witness ==
  /\ call.timer = "fired"
  /\ call.late = {"bestmove", "exit"}
  /\ call.stage = "go"
  /\ call.localTimeout = 250

\* C21: a pending call fails at once when the exit event, the error event or
\* the close of the output stream is handled, and a call that failed by the
\* exit or the stream close of a subprocess that had exited carries in its
\* rejection the stderr text captured up to then.
C21_PrematureEndFailsWithStderr ==
  /\ call.outcome = "pending" =>
       /\ call.exitPending => OnExit(call).outcome = "premature_exit"
       /\ call.errorPending => FailOnce(call, "process_error").outcome = "process_error"
       /\ call.listening => FailOnce(call, "stream_closed").outcome = "stream_closed"
  /\ /\ call.outcome \in {"premature_exit", "stream_closed"}
     /\ call.settledAt.proc = "exited"
     => call.carried = call.settledAt.stderr

\* C22: the score of a forced mate in N, N non-zero, has the sign of N and a
\* larger magnitude than every centipawn value of that sign.
C22_MateOutranksCentipawns ==
  /\ probe.op = "scores"
  /\ probe.x.type = "mate" /\ probe.x.value # 0
  /\ probe.y.type = "cp" /\ Sign(probe.y.value) = Sign(probe.x.value)
  => /\ ~probe.sx.isNull
     /\ Sign(probe.sx.cp) = Sign(probe.x.value)
     /\ Abs(probe.sx.cp) > Abs(probe.y.value)

\* C23: of two forced mates of the same sign the closer one has the strictly
\* larger score magnitude.
C23_CloserMateScoresHigher ==
  /\ probe.op = "scores"
  /\ probe.x.type = "mate" /\ probe.y.type = "mate"
  /\ Sign(probe.x.value) = Sign(probe.y.value)
  /\ 0 < Abs(probe.x.value) /\ Abs(probe.x.value) < Abs(probe.y.value)
  => /\ ~probe.sx.isNull /\ ~probe.sy.isNull
     /\ Abs(probe.sx.cp) > Abs(probe.sy.cp)

\* C24: for the line 'bestmove m ponder p' the result has bestMove m and ponder
\* p, and for the line 'bestmove m' it has bestMove m and no ponder move.
C24_BestmoveAndPonderParsed ==
  probe.op = "result" =>
    /\ \A m \in Moves, p \in Moves :
         probe.parts = <<"bestmove", m, "ponder", p>> =>
           probe.result.bestMove = m /\ probe.result.ponder = p
    /\ \A m \in Moves :
         probe.parts = <<"bestmove", m>> =>
           probe.result.bestMove = m /\ probe.result.ponder = Absent

\* the serial number of the last line that reports the field for the index,
\* an untagged line counting for index 1; 0 if there is none
Latest(rawOutput, index, field) ==
  LET reports == {k \in DOMAIN rawOutput :
                    /\ rawOutput[k][field]
                    /\ index = IF rawOutput[k].tagged THEN rawOutput[k].multipv
                               ELSE 1}
  IN IF reports = {} THEN 0 ELSE CHOOSE k \in reports : \A j \in reports : j <= k

\* C25: the per-line records of a result are in strictly ascending order of
\* line index, hence one per index, are no more than the requested line count
\* clamped to 1..10, and each holds the depth, the evaluation and the move
\* sequence of the last info line that reported it for its index.
C25_ResultLinesOrderedAndLatest ==
  probe.op = "result" =>
    /\ \A i, j \in DOMAIN probe.lines : i < j => probe.lines[i].index < probe.lines[j].index
    /\ Len(probe.lines) <= 10
    /\ Len(probe.lines) <= IF probe.multiPv.isNumber /\ probe.multiPv.value >= 1
                             THEN probe.multiPv.value ELSE 1
    /\ \A i \in DOMAIN probe.lines :
         /\ probe.lines[i].depth = Latest(probe.rawOutput, probe.lines[i].index, "depth")
         /\ probe.lines[i].evaluation = Latest(probe.rawOutput, probe.lines[i].index, "score")
         /\ probe.lines[i].pv = Latest(probe.rawOutput, probe.lines[i].index, "pv")


\* the error records the failed calls of a call history should have left
ErrorsOf(calls) ==
  LET failed == SelectSeq(calls, LAMBDA c : c.result.failed)
  IN [i \in 1..Len(failed) |-> [ply |-> failed[i].ply, context |-> failed[i].context]]

MoveRejected(a) == \E i \in 1..Len(a.errors) : a.errors[i].context = "apply-move"
PliesOf(seq) == [i \in 1..Len(seq) |-> seq[i].ply]
UpTo(n) == [i \in 1..n |-> i]

\* C26: every failed engine call of analyzeGame is on the error list with its
\* ply and context, in call order, and when no move was rejected the returned
\* timeline has one entry per ply, in ply order 1..N, after 2N engine calls
C26_EngineFailuresTolerated ==
  probe.op = "analyzeGame" =>
    /\ SelectSeq(probe.errors, LAMBDA e : e.context # "apply-move") = ErrorsOf(probe.calls)
    /\ (probe.at = "returned" /\ ~MoveRejected(probe)) =>
         /\ PliesOf(probe.evaluationGraph) = UpTo(probe.analysisLimit)
         /\ Len(probe.calls) = 2 * probe.analysisLimit

C26_Witness ==
  /\ probe.op = "analyzeGame" /\ probe.at = "returned"
  /\ probe.analysisLimit = MaxPlies
  /\ probe.errors = <<[ply |-> 1, context |-> "pre-move"], [ply |-> 2, context |-> "post-move"]>>
  /\ Len(probe.evaluationGraph) = MaxPlies

\* C27: once the rules engine rejected the move of ply k, analyzeGame has
\* returned with exactly one apply-move error, for ply k, as its last error;
\* the timeline is plies 1..k-1, no annotation is for ply k or later, and the
\* last engine call is the pre-move call of ply k
C27_RejectionStopsAnalysis ==
  (probe.op = "analyzeGame" /\ MoveRejected(probe)) =>
    LET k == probe.idx + 1
        rejections == SelectSeq(probe.errors, LAMBDA e : e.context = "apply-move")
    IN /\ probe.at = "returned"
       /\ rejections = <<[ply |-> k, context |-> "apply-move"]>>
       /\ probe.errors[Len(probe.errors)] = [ply |-> k, context |-> "apply-move"]
       /\ PliesOf(probe.evaluationGraph) = UpTo(k - 1)
       /\ \A i \in 1..Len(probe.annotations) : probe.annotations[i].ply < k
       /\ Len(probe.calls) = 2 * k - 1
       /\ probe.calls[Len(probe.calls)].ply = k
       /\ probe.calls[Len(probe.calls)].context = "pre-move"

C27_Witness ==
  /\ probe.op = "analyzeGame" /\ probe.at = "returned"
  /\ MoveRejected(probe)
  /\ probe.idx = 1
  /\ Len(probe.evaluationGraph) = 1

\* the tag the thresholds give a loss of delta centipawns
TierOf(delta, thresholds) ==
  IF delta >= thresholds.blunder THEN "blunder"
  ELSE IF delta >= thresholds.mistake THEN "mistake"
  ELSE IF delta >= thresholds.inaccuracy THEN "inaccuracy"
  ELSE Absent

ResultOf(a, ply, context) ==
  (CHOOSE c \in {a.calls[i] : i \in 1..Len(a.calls)} :
      c.ply = ply /\ c.context = context).result

\* C28: for every analysed ply whose two scores are known, with
\* delta = best achievable score - actual score of the mover, the annotation
\* list holds exactly one entry for the ply, tagged with the highest tier that
\* delta reaches, and no entry when delta is below the inaccuracy threshold
C28_AnnotationsFollowTiers ==
  probe.op = "analyzeGame" =>
    \A ply \in 1..Len(probe.evaluationGraph) :
      LET best == EvaluationToCentipawns(ResultOf(probe, ply, "pre-move").evaluation)
          post == EvaluationToCentipawns(ResultOf(probe, ply, "post-move").evaluation)
          tags == SelectSeq(probe.annotations, LAMBDA n : n.ply = ply)
      IN (~best.isNull /\ ~post.isNull) =>
           LET tier == TierOf(best.cp - (-post.cp), probe.thresholds)
           IN IF tier = Absent THEN tags = <<>>
              ELSE Len(tags) = 1 /\ tags[1].severity = tier


\* the protocol commands written so far (quit is the shutdown command), with
\* both forms of the search command read as "go"
ProtocolSent(c) ==
  LET commands == SelectSeq(c.sent, LAMBDA m : m # "quit")
  IN [i \in 1..Len(commands) |->
        IF commands[i] \in {"go depth", "go movetime"} THEN "go" ELSE commands[i]]

ProtocolOrder(c) ==
  <<"uci", "setoption Skill Level">>
    \o (IF c.multiPv > 1 THEN <<"setoption MultiPV">> ELSE <<>>)
    \o <<"isready", "position", "go">>

IsPrefix(s, t) == Len(s) <= Len(t) /\ \A i \in 1..Len(s) : s[i] = t[i]

\* the commands are a prefix of the protocol order, nothing follows uci before
\* uciok was read, position and go follow readyok, and a call settles with a
\* best move only after the whole sequence
CommandsInOrder ==
  LET commands == ProtocolSent(call) IN
  /\ IsPrefix(commands, ProtocolOrder(call))
  /\ Len(commands) > 1 => "uciok" \in call.seen
  /\ Len(commands) > Len(ProtocolOrder(call)) - 2 => "readyok" \in call.seen
  /\ call.outcome = "bestmove" => commands = ProtocolOrder(call)

\* C29: the commands are written in the order uci, setoption Skill Level,
\* setoption MultiPV (only for more than one line), isready, position, go,
\* each once and each only after its sentinel line was read, and the
\* evaluation a call returns never comes from a line read before go was sent
C29_StagesGateCommandsAndLines ==
  /\ CommandsInOrder
  /\ call.evaluation \in {"null", "go"}
  /\ call.result \in {"null", "go"}

\* the search commands written so far
GoCommands(c) == SelectSeq(c.sent, LAMBDA m : m \in {"go depth", "go movetime"})

Positive(x) == x.isNumber /\ x.tenths > 0

\* C30: at most one search command is written, exactly one by the time a best
\* move is returned; it is 'go depth d' for a requested positive depth d,
\* otherwise 'go movetime t' for a requested positive movetime t, otherwise
\* 'go movetime 1000'
C30_GoCommandFollowsRequest ==
  LET gos == GoCommands(call) IN
  /\ Len(gos) <= 1
  /\ call.outcome = "bestmove" => Len(gos) = 1
  /\ Len(gos) = 1 =>
       IF Positive(call.depth)
         THEN gos[1] = "go depth" /\ 10 * call.goValue = call.depth.tenths
       ELSE IF Positive(call.movetime)
         THEN gos[1] = "go movetime" /\ 10 * call.goValue = call.movetime.tenths
       ELSE gos[1] = "go movetime" /\ call.goValue = DEFAULT_MOVETIME_MS

\* the connections whose close event would reach participant p
ClosableFor(p) == {c \in DOMAIN conns : conns[c].state # "closed" /\ conns[c].pid = p}

\* no seated record is out of reach of every close event and without a timer
SeatedRecordsReachable ==
  \A p \in DOMAIN PLAYERS :
    (PLAYERS[p].gameId # None /\ SeatedIn(PLAYERS, LOBBIES, p, PLAYERS[p].gameId)) =>
      (PLAYERS[p].disconnectTimer \/ ClosableFor(p) # {})

\* C31: a hello on a connection that is bound to a participant creates no
\* participant record, and every record seated in a lobby either has its grace
\* timer pending or is the participant of a connection that can still close
C31_OneIdentityPerConnection ==
  /\ \A c \in OpenConns, requestedPlayerId \in DOMAIN PLAYERS \cup {None} :
       GetPlayer(Cur, c) # None =>
         DOMAIN HandleHelloSt(Cur, c, requestedPlayerId, None).P = DOMAIN PLAYERS
  /\ SeatedRecordsReachable

\* the resume message connection c is owed for participant p of lobby g
ResumeOf(c, p, g) ==
  [to |-> c, type |-> "resume", gameId |-> g, fen |-> LOBBIES[g].chess,
   turn |-> TurnColor(LOBBIES[g].chess), color |-> PLAYERS[p].color,
   moves |-> LOBBIES[g].moves, result |-> LOBBIES[g].result,
   reason |-> LOBBIES[g].resultReason]

Resumed(st, c, p, g) == \E i \in DOMAIN st.out : st.out[i] = ResumeOf(c, p, g)

\* C32: a hello with the id of a participant seated in a lobby, on a
\* connection other than the participant's current one, is answered with a
\* resume message carrying the lobby's position, side to move, the
\* participant's side, the move list and the outcome
C32_ReattachGetsResume ==
  \A c \in OpenConns, p \in DOMAIN PLAYERS, named \in GameIds \cup {None} :
    (/\ PLAYERS[p].ws # c
     /\ SeatedIn(PLAYERS, LOBBIES, p, PLAYERS[p].gameId)) =>
      Resumed(HandleHelloSt(Cur, c, p, named), c, p, PLAYERS[p].gameId)

\* the server with its grace timers: a pending setTimeout callback runs
SpecGrace == Spec /\ \A p \in 1..MaxPlayers : WF_vars(DisconnectTimeout(p))

\* participant p is seated in the active lobby with serial u
SeatedInActive(p, u) ==
  /\ p \in DOMAIN PLAYERS
  /\ SeatedIn(PLAYERS, LOBBIES, p, PLAYERS[p].gameId)
  /\ LOBBIES[PLAYERS[p].gameId].status = "active"
  /\ LOBBIES[PLAYERS[p].gameId].uid = u

\* player.ws is an open socket
HasOpenConnection(p) ==
  /\ p \in DOMAIN PLAYERS
  /\ PLAYERS[p].ws # None
  /\ conns[PLAYERS[p].ws].state = "open"

Registered(u) == \E g \in DOMAIN LOBBIES : LOBBIES[g].uid = u

\* C33: a participant seated in an active lobby whose connection is gone
\* eventually has an open connection again, or its lobby leaves the registry
C33_DisconnectIsBounded ==
  \A p \in 1..MaxPlayers, u \in 1..MaxLobbies :
    (SeatedInActive(p, u) /\ ~HasOpenConnection(p))
      ~> (HasOpenConnection(p) \/ ~Registered(u))

\* the queries analyzeGame has started, in the order pre-move, post-move of
\* ply 1, pre-move, post-move of ply 2, ...
QueryOrder(n) ==
  [i \in 1..n |-> [ply |-> (i + 1) \div 2,
                   context |-> IF i % 2 = 1 THEN "pre-move" ELSE "post-move"]]

\* the line count the claim gives the pre-move query
ClampOneToFive(multiPv) ==
  IF ~multiPv.isNumber THEN 3 ELSE Min(Max(multiPv.value, 1), 5)

\* a query starts only when every earlier one has settled, in the order
\* pre-move, apply, post-move of each ply, with the stated line counts
QueriesInSequence ==
  LET started == [i \in 1..Len(probe.queries) |->
                    [ply |-> probe.queries[i].ply, context |-> probe.queries[i].context]]
  IN /\ started = QueryOrder(Len(probe.queries))
     /\ Len(probe.queries) = Len(probe.calls) + (IF probe.pending THEN 1 ELSE 0)
     /\ probe.pending => probe.at \in {"pre-move", "post-move"}
     /\ (probe.pending /\ probe.at = "post-move") =>
          probe.calls[Len(probe.calls)] \in
            {[ply |-> probe.idx + 1, context |-> "pre-move", result |-> r] : r \in RunResults}
     /\ \A i \in 1..Len(probe.queries) :
          probe.queries[i].lines = IF probe.queries[i].context = "pre-move"
                                     THEN ClampOneToFive(probe.multiPv) ELSE 1

\* C34: the engine calls of an analysis run never overlap and follow the
\* order pre-move query, move applied, post-move query for each ply, the
\* pre-move query with the caller's line count clamped to 1..5 (3 by default)
\* and the post-move query with one line; at most one subprocess of the run
\* is alive in any state
C34_AnalysisCallsSequential ==
  probe.op = "analyzeGame" =>
    /\ QueriesInSequence
    /\ probe.running + probe.dying <= 1

\* host and guest of every active lobby are seated on opposite sides
ActiveSidesOpposite ==
  \A g \in DOMAIN LOBBIES :
    LOBBIES[g].status = "active" =>
      /\ LOBBIES[g].host \in DOMAIN PLAYERS
      /\ LOBBIES[g].guest \in DOMAIN PLAYERS
      /\ PLAYERS[LOBBIES[g].host].color \in {"white", "black"}
      /\ PLAYERS[LOBBIES[g].guest].color = GetOpponentColor(PLAYERS[LOBBIES[g].host].color)

\* a lobby that is active before and after a step keeps its seats and sides
SidesKept ==
  \A g \in DOMAIN LOBBIES \cap DOMAIN LOBBIES' :
    (/\ LOBBIES[g].status = "active"
     /\ LOBBIES'[g].status = "active"
     /\ LOBBIES'[g].uid = LOBBIES[g].uid) =>
      /\ LOBBIES'[g].host = LOBBIES[g].host
      /\ LOBBIES'[g].guest = LOBBIES[g].guest
      /\ PLAYERS'[LOBBIES[g].host].color = PLAYERS[LOBBIES[g].host].color
      /\ PLAYERS'[LOBBIES[g].guest].color = PLAYERS[LOBBIES[g].guest].color

\* C35: in every reachable state the host and the guest of an active lobby
\* have opposite sides, the guest's being the opposite of the host's, and no
\* step changes the seats or sides of a lobby that stays active
C35_ActiveLobbySidesOpposite == []ActiveSidesOpposite /\ [][SidesKept]_vars

C35_Witness ==
  \E g \in DOMAIN LOBBIES :
    /\ LOBBIES[g].status = "active"
    /\ Len(LOBBIES[g].moves) = MaxMoves
    /\ PLAYERS[LOBBIES[g].host].color = "black"
    /\ PLAYERS[LOBBIES[g].guest].color = "white"

\* the open sockets of the participants of lobby g
OpenSeats(g) ==
  {PLAYERS[q].ws : q \in {LOBBIES[g].host, LOBBIES[g].guest} \ {None}} \cap OpenConns

\* message i of st.out is the broadcast of a move that led to position chess
IsMoveBroadcast(st, i, chess) ==
  /\ st.out[i].type = "move"
  /\ st.out[i].fen = chess
  /\ st.out[i].turn = TurnColor(chess)

\* C36: a move message that changes lobby g appends the move to the move
\* list and is broadcast, with the resulting position and side to move, to
\* every participant with an open socket; a game_over message of the same
\* handler reaches a socket only after that move broadcast has been sent to
\* it, and a terminal move sends game_over to each of those sockets
C36_MoveBroadcastBeforeGameOver ==
  \A c \in OpenConns, payload \in MovePayloads :
    \A g \in DOMAIN LOBBIES :
      LET st == HandleMoveSt(Cur, c, payload)
          m == ChessMoveUci(LOBBIES[g].chess, payload.uci)
          chess2 == ChessApply(LOBBIES[g].chess, m)
      IN PositionChanged(st, g) =>
           /\ \A r \in OpenSeats(g) :
                \E i \in DOMAIN st.out : st.out[i].to = r /\ IsMoveBroadcast(st, i, chess2)
           /\ \A i \in DOMAIN st.out :
                st.out[i].type = "game_over" =>
                  \E j \in 1..(i - 1) :
                    st.out[j].to = st.out[i].to /\ IsMoveBroadcast(st, j, chess2)
           /\ m.over # "none" =>
                \A r \in OpenSeats(g) :
                  \E i \in DOMAIN st.out : st.out[i].to = r /\ st.out[i].type = "game_over"
           /\ g \in DOMAIN st.L =>
                /\ Len(st.L[g].moves) = Len(LOBBIES[g].moves) + 1
                /\ st.L[g].moves[Len(st.L[g].moves)].fenAfter = chess2

\* a stalemating move has just ended a game whose participants are both online
C36_Witness ==
  \E i \in DOMAIN fin :
    /\ fin[i].reason = "stalemate"
    /\ PLAYERS[fin[i].host].ws \in OpenConns
    /\ PLAYERS[fin[i].guest].ws \in OpenConns
    /\ PLAYERS[fin[i].host].ws # PLAYERS[fin[i].guest].ws

\* the seats participant p occupies: <<lobby id, seat>>
SeatsOf(p) ==
  {<<g, "host">> : g \in {x \in DOMAIN LOBBIES : LOBBIES[x].host = p}}
    \cup {<<g, "guest">> : g \in {x \in DOMAIN LOBBIES : LOBBIES[x].guest = p}}

\* C37: a participant's gameId is non-null exactly when the registry holds a
\* lobby under that id with the participant as host or guest; no participant
\* occupies more than one seat; a seated participant has a side
C37_SeatBookkeeping ==
  \A p \in DOMAIN PLAYERS :
    /\ PLAYERS[p].gameId # None <=>
         \E g \in DOMAIN LOBBIES : g = PLAYERS[p].gameId /\ p \in {LOBBIES[g].host, LOBBIES[g].guest}
    /\ SeatsOf(p) # {} => PLAYERS[p].gameId # None
    /\ Cardinality(SeatsOf(p)) <= 1
    /\ SeatsOf(p) # {} => PLAYERS[p].color \in {"white", "black"}

\* connection c still carries participant p's id (ws.__playerId) although a
\* later hello bound p to another connection
Superseded(c, p) ==
  /\ conns[c].pid = p
  /\ p \in DOMAIN PLAYERS
  /\ PLAYERS[p].ws \notin {None, c}

\* C38: once hello has bound a participant to a newer connection, the
\* connection bound before acts for it no longer: a move message arriving on it
\* changes no lobby's position, and its close or error event leaves the
\* participant's live connection and grace timer as they are
C38_OnlyNewestConnectionActs ==
  \A c \in DOMAIN conns, p \in DOMAIN PLAYERS :
    Superseded(c, p) =>
      /\ c \in OpenConns =>
           \A payload \in MovePayloads, g \in DOMAIN LOBBIES :
             ~PositionChanged(HandleMoveSt(Cur, c, payload), g)
      /\ HandleDisconnectSt(Cur, c).P[p].ws = PLAYERS[p].ws
      /\ HandleDisconnectSt(Cur, c).P[p].disconnectTimer = PLAYERS[p].disconnectTimer

\* C39: an annotation exists for a ply only if both of its scores are known
\* and the mover's actual score is lower than the best achievable score by at
\* least the inaccuracy threshold (a loss, delta > 0); a ply with an equal or
\* higher actual score, or with a missing score, has no annotation
C39_AnnotatedOnlyForLoss ==
  probe.op = "analyzeGame" =>
    \A i \in 1..Len(probe.annotations) :
      LET ply == probe.annotations[i].ply
          best == EvaluationToCentipawns(ResultOf(probe, ply, "pre-move").evaluation)
          post == EvaluationToCentipawns(ResultOf(probe, ply, "post-move").evaluation)
      IN /\ ~best.isNull
         /\ ~post.isNull
         /\ best.cp - (-post.cp) > 0
         /\ best.cp - (-post.cp) >= probe.thresholds.inaccuracy

\* the promise of the call is settled
Settled(c) == c.outcome \notin {"not_called", "pending"}

\* what a settled call has delivered: the outcome and the constructed result
Delivered(c) == <<c.outcome, c.result, c.settledAt, c.carried>>

OutcomeKept == Settled(call) => Delivered(call') = Delivered(call)

\* resolve or reject was called exactly once in a call whose resolved flag is
\* set, never in a pending one, and buildResult ran only for the resolution
SettledOnce ==
  /\ call.settles <= 1
  /\ call.built <= 1
  /\ call.resolved <=> call.settles = 1
  /\ call.resolved => Settled(call)
  /\ call.built = 1 <=> call.outcome = "bestmove"
  /\ call.outcome = "pending" => ~call.resolved /\ call.timer = "armed"

====
